---- MODULE Spec2Model ----
(***************************************************************************)
(* A model of the optimal-systems/data harvesting pipeline:                *)
(*   - the fetch cache gateway   (utils/content.py, utils/redis.py)        *)
(*   - the paginated extractor   (ahorramas/extract.py)                    *)
(*   - raw ingestion             (carrefour/load.py, ahorramas/load.py)    *)
(*   - the warehouse             (carrefour/load.py, carrefour/main.py)    *)
(*   - the extraction functions  (carrefour/extract.py,                    *)
(*                                ahorramas/extract.py)                    *)
(*   - execute_query             (utils/postgres.py)                       *)
(*   - the store fetch           (ahorramas/extract.py)                    *)
(* Each component has its own specification (SpecKey, SpecFetch, SpecRuns, *)
(* SpecSize, SpecExtract, SpecRaw, SpecWarehouse, SpecPipeline,            *)
(* SpecRecords, SpecQuery, SpecStoreFetch); the variables of the other     *)
(* components stay at their initial value.                                 *)
(***************************************************************************)
EXTENDS Integers, Sequences, FiniteSets, TLC

VARIABLES
    \* ---- canonical URL / cache key (pure functions applied to drawn inputs)
    k_pc,         \* "drawn" | "built"
    k_url,        \* the url argument
    k_p1, k_p2,   \* two params mappings
    k_full1, k_full2,   \* _build_full_url results
    k_key1, k_key2,     \* redis keys
    \* ---- fetch_html_content
    cache,        \* the redis store: a function redis_key -> hash (url, html)
    f_pc,         \* "idle" | "loop" | "returned" | "raised"
    f_args,       \* arguments of the current call
    attempt,      \* loop variable of `for attempt in range(0, retries)`
    outcomes,     \* outcome of each requests.get issued by the current call
    sleeps,       \* every time.sleep of the current call: [attempt, why, secs]
    result,       \* what the call returned, or the error it raised
    cacheAtCall,  \* the store as it was when the current call started
    firstContent, \* (url, params) -> content of its first successful return
    firstAtCall,  \* firstContent as it was when the current call started
    \* ---- independent pipeline runs calling fetch_html_content on one store
    runs,         \* run -> its call: [pc, url, params, retries, attempt, result]
    \* ---- get_category_total_size (ahorramas)
    t_pc,         \* "drawn" | "parsed"
    counter_el,   \* the .product-results-count element of the page, or none
    t_size,       \* the value returned
    \* ---- extract_products (ahorramas)
    e_pc,         \* "idle" | "loop" | "done" | "raised"
    total_size,   \* get_category_total_size(category_url)
    start,        \* offset of the next chunk
    remaining,    \* items still to request
    items,        \* records accumulated so far
    chunks,       \* every chunk fetch issued: [start, sz, n], n parsed records
    e_result,     \* the rows of the returned DataFrame
    \* ---- raw ingestion
    today,        \* the calendar day datetime.now() falls on
    tables,       \* the database: table name -> its rows (all text)
    r_pc,         \* "idle" | "drop" | "create" | "insert" | "done" | "failed"
    r_job,        \* the running load: loader, table name, data, next row
    r_runs,       \* loads started so far
    lastLoaded,   \* table name -> input of the load that last completed on it,
                  \* while no other load has touched the table since
    \* ---- the warehouse: raw, staging and production of one entity kind
    entity,       \* "stores" | "products"
    pgdb,           \* the database: raw tables, staging rows, production rows
    w_pc,         \* the statement the running call is at, or idle/done/raised
    w_call,       \* the running call: function, raw table name, frame, ...
    w_err,        \* the error the call raised
    w_log,        \* the statements of the call so far, with their outcome
    w_calls,      \* calls started so far
    staged,       \* raw table name -> staging rows of its (date, source) after
                  \* the last consolidation of the table as it is now
    promoted,     \* the first promotion: the staging rows it read, the
                  \* production rows of their date it left
    \* ---- the extraction functions: records in, a DataFrame out
    x_pc,         \* "idle" | "loop" | "unique" | "done" | "raised"
    x_call,       \* the running call: function, its input records, next index
    x_items,      \* `items` / `all_products`: the records appended so far
    x_df,         \* the rows of the DataFrame returned
    \* ---- execute_query on the connection pool
    pool,         \* the pool: the number of connections checked out
    q_pc,         \* the line the running call is at, or idle/returned/raised
    q_call,       \* the running call: statement, fetch, connection, ...
    committed,    \* the rows committed transactions have written
    \* ---- fetch_supermarkets of ahorramas
    s_pc,         \* "idle" | "loop" | "returned" | "raised"
    s_attempt,    \* iterations of `for _ in range(0, retries)` begun and failed
    s_outcomes,   \* outcome of each session.get issued by the call
    s_sleeps,     \* the time.sleep calls of the call, in order
    s_result      \* what the call returned or raised

keyVars == <<k_pc, k_url, k_p1, k_p2, k_full1, k_full2, k_key1, k_key2>>
fetchVars == <<cache, f_pc, f_args, attempt, outcomes, sleeps, result,
               cacheAtCall, firstContent, firstAtCall>>

runVars == <<runs>>
sizeVars == <<t_pc, counter_el, t_size>>
extractVars == <<e_pc, total_size, start, remaining, items, chunks, e_result>>
rawVars == <<today, tables, r_pc, r_job, r_runs, lastLoaded>>
warehouseVars == <<entity, pgdb, w_pc, w_call, w_err, w_log, w_calls, staged, promoted>>
recordVars == <<x_pc, x_call, x_items, x_df>>
queryVars == <<pool, q_pc, q_call, committed>>
storeVars == <<s_pc, s_attempt, s_outcomes, s_sleeps, s_result>>

\* What the actions of one component leave alone.
nonKeyVars == <<fetchVars, runVars, sizeVars, extractVars, rawVars, warehouseVars,
               recordVars, queryVars, storeVars>>
nonFetchVars == <<keyVars, runVars, sizeVars, extractVars, rawVars, warehouseVars,
               recordVars, queryVars, storeVars>>
nonSizeVars == <<keyVars, fetchVars, runVars, extractVars, rawVars, warehouseVars,
               recordVars, queryVars, storeVars>>
nonExtractVars == <<keyVars, fetchVars, runVars, sizeVars, rawVars, warehouseVars,
                   recordVars, queryVars, storeVars>>
nonRawVars == <<keyVars, fetchVars, runVars, sizeVars, extractVars, warehouseVars,
               recordVars, queryVars, storeVars>>
\* The runs share the store with fetchVars and leave the rest of it alone.
nonRunVars == <<keyVars, f_pc, f_args, attempt, outcomes, sleeps, result,
                cacheAtCall, firstContent, firstAtCall, sizeVars, extractVars,
                rawVars, warehouseVars, recordVars, queryVars, storeVars>>
\* The warehouse shares the clock with rawVars.
nonWarehouseVars == <<keyVars, fetchVars, runVars, sizeVars, extractVars,
                      tables, r_pc, r_job, r_runs, lastLoaded, recordVars, queryVars, storeVars>>
nonRecordVars == <<keyVars, fetchVars, runVars, sizeVars, extractVars, rawVars,
                   warehouseVars, queryVars, storeVars>>
nonQueryVars == <<keyVars, fetchVars, runVars, sizeVars, extractVars, rawVars,
                  warehouseVars, recordVars, storeVars>>
nonStoreVars == <<keyVars, fetchVars, runVars, sizeVars, extractVars, rawVars,
                  warehouseVars, recordVars, queryVars>>

(***************************************************************************)
(* Bounds of the model.                                                    *)
(***************************************************************************)
MaxParams == 2
MaxRetries == 2
MaxDelay == 1
MaxTotal == 250
MaxTiles == 2
MaxIngests == 2
MaxDay == 2
MaxCountLen == 5
MaxCalls == 4
MaxRecords == 2
MaxConn == 2

(***************************************************************************)
(* Text.  A string the code builds is a sequence of tokens; a token is a   *)
(* TLA+ string.  Ord gives the order Python uses to compare the tokens.    *)
(***************************************************************************)
Ord(t) ==
    CASE t = "1" -> 49
      [] t = "2" -> 50
      [] t = "3" -> 51
      [] t = "&" -> 38
      [] t = "=" -> 61
      [] t = "?" -> 63
      [] t = "a" -> 97
      [] t = "b" -> 98
      [] t = "c" -> 99
      [] t = "https://h/p" -> 104
      [] t = "https://h/q" -> 105
      [] OTHER -> 0

\* A params value is an int; str(v) is its decimal text.
PyStr(n) == CASE n = 1 -> "1" [] n = 2 -> "2" [] OTHER -> "3"

ParamKeys == {"a", "b", "c"}
ParamValues == {1, 2}
Urls == {"https://h/p", "https://h/q"}

\* A dict is its items in insertion order, keys distinct; params=None is
\* [given |-> FALSE].
RECURSIVE SeqsUpTo(_, _)
SeqsUpTo(S, n) ==
    IF n = 0 THEN {<<>>}
    ELSE LET shorter == SeqsUpTo(S, n - 1)
         IN shorter \cup {Append(s, x) : s \in shorter, x \in S}

DistinctKeys(kvs) ==
    \A i, j \in 1..Len(kvs) : i # j => kvs[i][1] # kvs[j][1]

ParamItems ==
    {s \in SeqsUpTo(ParamKeys \X ParamValues, MaxParams) : DistinctKeys(s)}

NoneParams == [given |-> FALSE, items |-> <<>>]
ParamDicts == {[given |-> TRUE, items |-> s] : s \in ParamItems}
ParamArgs == {NoneParams} \cup ParamDicts

(***************************************************************************)
(* utils/content.py: _build_full_url                                       *)
(***************************************************************************)
\* Python's tuple comparison of two (key, str(value)) pairs.
PairLess(x, y) ==
    \/ Ord(x[1]) < Ord(y[1])
    \/ Ord(x[1]) = Ord(y[1]) /\ Ord(x[2]) < Ord(y[2])

RECURSIVE InsertSorted(_, _)
InsertSorted(x, s) ==
    IF s = <<>> THEN <<x>>
    ELSE IF PairLess(Head(s), x) THEN <<Head(s)>> \o InsertSorted(x, Tail(s))
    ELSE <<x>> \o s

\* sorted(pairs): stable, ascending.
RECURSIVE Sorted(_)
Sorted(s) == IF s = <<>> THEN <<>> ELSE InsertSorted(Head(s), Sorted(Tail(s)))

\* The generator (k, str(v)) for k, v in params.items(), in the dict's order.
StrItems(kvs) == [i \in 1..Len(kvs) |-> <<kvs[i][1], PyStr(kvs[i][2])>>]

\* A faulty variant: the querystring in the dict's own order.
QueryPairsUnsorted(kvs) == StrItems(kvs)

QueryPairs(kvs) == Sorted(StrItems(kvs))

\* urlencode of a list of pairs: k=v joined by &.
RECURSIVE UrlEncode(_)
UrlEncode(pairs) ==
    IF pairs = <<>> THEN <<>>
    ELSE LET h == Head(pairs)
             rest == UrlEncode(Tail(pairs))
         IN <<h[1], "=", h[2]>> \o (IF rest = <<>> THEN <<>> ELSE <<"&">> \o rest)

\* `if not params` is true of None and of the empty dict.
NotParams(p) == ~p.given \/ p.items = <<>>

BuildFullUrl(url, p) ==
    IF NotParams(p) THEN <<url>>
    ELSE <<url, "?">> \o UrlEncode(QueryPairs(p.items))

(***************************************************************************)
(* utils/redis.py: hash_md5.  The digest is a fold over the text; it is    *)
(* modelled by a polynomial digest of the tokens' code points.             *)
(***************************************************************************)
RECURSIVE Digest(_, _)
Digest(h, s) ==
    IF s = <<>> THEN h
    ELSE Digest((h * 131 + Ord(Head(s))) % 1000003, Tail(s))

HashMd5(data) == Digest(7, data)

\* redis_key = f"urls:{hash_md5(full_url)}"
RedisKey(full_url) == <<"urls:", HashMd5(full_url)>>

\* `if params is None: params = {}`
DefaultParams(p) == IF p.given THEN p ELSE [given |-> TRUE, items |-> <<>>]

FullUrlOf(url, p) == BuildFullUrl(url, DefaultParams(p))
KeyOf(url, p) == RedisKey(FullUrlOf(url, p))

(***************************************************************************)
(* The canonical URL and the cache key of two params mappings.             *)
(***************************************************************************)
KeyInit ==
    /\ k_pc = "drawn"
    /\ k_url \in Urls
    /\ k_p1 \in ParamArgs
    /\ k_p2 \in ParamArgs
    /\ k_full1 = <<>>
    /\ k_full2 = <<>>
    /\ k_key1 = <<>>
    /\ k_key2 = <<>>

Canonicalize ==
    /\ k_pc = "drawn"
    /\ k_pc' = "built"
    /\ k_full1' = FullUrlOf(k_url, k_p1)
    /\ k_full2' = FullUrlOf(k_url, k_p2)
    /\ k_key1' = KeyOf(k_url, k_p1)
    /\ k_key2' = KeyOf(k_url, k_p2)
    /\ UNCHANGED <<k_url, k_p1, k_p2>>
    /\ UNCHANGED nonKeyVars

(***************************************************************************)
(* utils/content.py: fetch_html_content                                    *)
(***************************************************************************)
\* The bodies the server may answer with, and BeautifulSoup's prettify of each
\* (one tag per line, indented); the empty document prettifies to "".
Bodies == {"", "<p>x</p>", "<p>y</p>"}

Prettify(body) ==
    CASE body = "" -> ""
      [] body = "<p>x</p>" -> "<p>\n x\n</p>\n"
      [] body = "<p>y</p>" -> "<p>\n y\n</p>\n"

\* redis stores and returns bytes.
Utf8Encode(str) == <<"bytes", str>>
Utf8Decode(bytes) == bytes[2]

\* `if html_bytes:` is false of the empty bytes.
Truthy(bytes) == bytes[2] # ""

\* The arguments the model calls fetch_html_content with.
FetchUrls == {"https://h/p"}
FetchParams ==
    { NoneParams,
      [given |-> TRUE, items |-> << <<"a", 1>>, <<"b", 2>> >>],
      [given |-> TRUE, items |-> << <<"b", 2>>, <<"a", 1>> >>] }
FetchRequests == [url : FetchUrls, params : FetchParams]
RetryChoices == 0..MaxRetries
DelayChoices == 0..MaxDelay

NoResult == [kind |-> "none", val |-> ""]
Returned(content) == [kind |-> "content", val |-> content]
RuntimeError(msg) == [kind |-> "RuntimeError", val |-> msg]

Request == [url |-> f_args.url, params |-> f_args.params]
FullUrl == FullUrlOf(f_args.url, f_args.params)
redis_key == RedisKey(FullUrl)

\* redis_conn().exists(redis_key)
Exists(store, key) == key \in DOMAIN store

\* Lines 58-61: the key exists and its html field is non-empty.
CacheHit(store, key) == Exists(store, key) /\ Truthy(store[key].html)

\* redis_conn().hset(redis_key, mapping={"url": full_url, "html": html_pretty})
HSet(store, key, full_url, html) ==
    [k \in DOMAIN store \cup {key} |->
        IF k = key THEN [url |-> Utf8Encode(full_url), html |-> Utf8Encode(html)]
        ELSE store[k]]

\* A faulty variant: one iteration too many.
LoopRunsInclusive(a, retries) == a <= retries

\* `for attempt in range(0, retries)`
LoopRuns(a, retries) == a < retries

\* A faulty variant: a constant backoff.
BackoffConstant(delay, a) == delay

\* delay * (attempt + 1)
Backoff(delay, a) == delay * (a + 1)

Slept(a, why, secs) == [attempt |-> a, why |-> why, secs |-> secs]

Remember(first, req, content) ==
    IF req \in DOMAIN first THEN first
    ELSE [q \in DOMAIN first \cup {req} |-> IF q = req THEN content ELSE first[q]]

FetchInit ==
    /\ cache = <<>>
    /\ f_pc = "idle"
    /\ f_args = [url |-> "https://h/p", params |-> NoneParams, retries |-> 0, delay |-> 0]
    /\ attempt = 0
    /\ outcomes = <<>>
    /\ sleeps = <<>>
    /\ result = NoResult
    /\ cacheAtCall = <<>>
    /\ firstContent = <<>>
    /\ firstAtCall = <<>>

\* Lines 51-65: the call, up to the cache lookup.
FetchCall(u, p, r, d) ==
    /\ UNCHANGED nonFetchVars
    /\ f_pc # "loop"
    /\ f_args' = [url |-> u, params |-> p, retries |-> r, delay |-> d]
    /\ attempt' = 0
    /\ outcomes' = <<>>
    /\ sleeps' = <<>>
    /\ cacheAtCall' = cache
    /\ firstAtCall' = firstContent
    /\ UNCHANGED cache
    /\ LET key == KeyOf(u, p)
       IN IF CacheHit(cache, key)
          THEN /\ f_pc' = "returned"
               /\ result' = Returned(Utf8Decode(cache[key].html))
               /\ firstContent' = Remember(firstContent, [url |-> u, params |-> p],
                                           Utf8Decode(cache[key].html))
          ELSE /\ f_pc' = "loop"
               /\ result' = NoResult
               /\ UNCHANGED firstContent

\* Lines 69-88: the request succeeds; parse, courtesy sleep, store, return.
AttemptOk(body) ==
    /\ UNCHANGED nonFetchVars
    /\ f_pc = "loop"
    /\ LoopRuns(attempt, f_args.retries)
    /\ LET html_pretty == Prettify(body)
       IN /\ outcomes' = Append(outcomes, "ok")
          /\ sleeps' = Append(sleeps, Slept(attempt, "courtesy", f_args.delay))
          /\ cache' = HSet(cache, redis_key, FullUrl, html_pretty)
          /\ result' = Returned(html_pretty)
          /\ firstContent' = Remember(firstContent, Request, html_pretty)
    /\ f_pc' = "returned"
    /\ UNCHANGED <<f_args, attempt, cacheAtCall, firstAtCall>>

\* Lines 90-96, then 106-107: requests.Timeout.
AttemptTimeout ==
    /\ UNCHANGED nonFetchVars
    /\ f_pc = "loop"
    /\ LoopRuns(attempt, f_args.retries)
    /\ outcomes' = Append(outcomes, "timeout")
    /\ sleeps' = sleeps \o
          << Slept(attempt, "timeout_handler", Backoff(f_args.delay, attempt)),
             Slept(attempt, "loop_tail", Backoff(f_args.delay, attempt)) >>
    /\ attempt' = attempt + 1
    /\ UNCHANGED <<cache, f_pc, f_args, result, cacheAtCall, firstContent, firstAtCall>>

\* A faulty variant: the body of the response is stored before
\* raise_for_status looks at the status, so the page of an HTTP error is in
\* the store when the attempt fails.
AttemptRequestErrorCaching ==
    /\ UNCHANGED nonFetchVars
    /\ f_pc = "loop"
    /\ LoopRuns(attempt, f_args.retries)
    /\ outcomes' = Append(outcomes, "transport")
    /\ sleeps' = Append(sleeps, Slept(attempt, "loop_tail", Backoff(f_args.delay, attempt)))
    /\ attempt' = attempt + 1
    /\ cache' = HSet(cache, redis_key, FullUrl, Prettify("<p>x</p>"))
    /\ UNCHANGED <<f_pc, f_args, result, cacheAtCall, firstContent, firstAtCall>>

\* Lines 98-100, then 106-107: any other requests.RequestException
\* (connection failure, HTTP error status from raise_for_status).
AttemptRequestError ==
    /\ UNCHANGED nonFetchVars
    /\ f_pc = "loop"
    /\ LoopRuns(attempt, f_args.retries)
    /\ outcomes' = Append(outcomes, "transport")
    /\ sleeps' = Append(sleeps, Slept(attempt, "loop_tail", Backoff(f_args.delay, attempt)))
    /\ attempt' = attempt + 1
    /\ UNCHANGED <<cache, f_pc, f_args, result, cacheAtCall, firstContent, firstAtCall>>

\* Where an error that is no RequestException can be raised inside the try.
UnexpectedStages == {"get", "parse", "cache_write"}

\* The courtesy sleep (line 76) comes before the cache write (line 80).
SleepsBefore(stage) ==
    IF stage = "cache_write"
    THEN <<Slept(attempt, "courtesy", f_args.delay)>>
    ELSE <<>>

\* A faulty variant: the error is logged and the loop goes on, as for a transport error.
AttemptUnexpectedRetried(stage) ==
    /\ UNCHANGED nonFetchVars
    /\ f_pc = "loop"
    /\ LoopRuns(attempt, f_args.retries)
    /\ outcomes' = Append(outcomes, "unexpected")
    /\ sleeps' = sleeps \o SleepsBefore(stage) \o
                 <<Slept(attempt, "loop_tail", Backoff(f_args.delay, attempt))>>
    /\ attempt' = attempt + 1
    /\ UNCHANGED <<cache, f_pc, f_args, result, cacheAtCall, firstContent, firstAtCall>>

\* Lines 102-104: any other Exception is re-raised as RuntimeError.
AttemptUnexpected(stage) ==
    /\ UNCHANGED nonFetchVars
    /\ f_pc = "loop"
    /\ LoopRuns(attempt, f_args.retries)
    /\ outcomes' = Append(outcomes, "unexpected")
    /\ sleeps' = sleeps \o SleepsBefore(stage)
    /\ result' = RuntimeError("An unexpected error occurred")
    /\ f_pc' = "raised"
    /\ UNCHANGED <<cache, f_args, attempt, cacheAtCall, firstContent, firstAtCall>>

\* Lines 109-110: the loop is over.
Exhausted ==
    /\ UNCHANGED nonFetchVars
    /\ f_pc = "loop"
    /\ ~LoopRuns(attempt, f_args.retries)
    /\ result' = RuntimeError("Max retries reached. Failed to access page.")
    /\ f_pc' = "raised"
    /\ UNCHANGED <<cache, f_args, attempt, outcomes, sleeps, cacheAtCall,
                   firstContent, firstAtCall>>

(***************************************************************************)
(* utils/content.py: fetch_html_content called by independent pipeline     *)
(* runs.  The runs are separate processes; all they share is the redis     *)
(* store, and a call takes no lock on it: the lookup (lines 58-61) and the *)
(* write (line 80) of one call are two steps, and steps of other runs come *)
(* between them.                                                           *)
(***************************************************************************)
RunIds == {"run_a", "run_b"}

\* The params the runs call with.
RunParams == {NoneParams, [given |-> TRUE, items |-> << <<"a", 1>>, <<"b", 2>> >>]}

RunIdle == [pc |-> "idle", url |-> "https://h/p", params |-> NoneParams,
            retries |-> 0, attempt |-> 0, result |-> NoResult]

RunKey(r) == KeyOf(runs[r].url, runs[r].params)

RunsInit == runs = [r \in RunIds |-> RunIdle]

\* Lines 51-65: the call, up to the cache lookup.
RunCall(r, u, p, n) ==
    /\ UNCHANGED nonRunVars
    /\ runs[r].pc # "loop"
    /\ LET key == KeyOf(u, p)
           call == [pc |-> "loop", url |-> u, params |-> p, retries |-> n,
                    attempt |-> 0, result |-> NoResult]
       IN runs' = [runs EXCEPT ![r] =
                     IF CacheHit(cache, key)
                     THEN [call EXCEPT !.pc = "returned",
                                       !.result = Returned(Utf8Decode(cache[key].html))]
                     ELSE call]
    /\ UNCHANGED cache

\* Lines 69-88: the request of run r succeeds; parse, store, return.
RunAttemptOk(r, body) ==
    /\ UNCHANGED nonRunVars
    /\ runs[r].pc = "loop"
    /\ LoopRuns(runs[r].attempt, runs[r].retries)
    /\ LET html_pretty == Prettify(body)
       IN /\ cache' = HSet(cache, RunKey(r),
                           FullUrlOf(runs[r].url, runs[r].params), html_pretty)
          /\ runs' = [runs EXCEPT ![r].pc = "returned",
                                  ![r].result = Returned(html_pretty)]

\* Lines 90-100, 106-107: a timeout or another RequestException; after the
\* backoff the loop goes on.
RunAttemptFails(r) ==
    /\ UNCHANGED nonRunVars
    /\ runs[r].pc = "loop"
    /\ LoopRuns(runs[r].attempt, runs[r].retries)
    /\ runs' = [runs EXCEPT ![r].attempt = @ + 1]
    /\ UNCHANGED cache

\* Lines 102-104 and 109-110: an unexpected error, or the loop is over.
RunRaises(r) ==
    /\ UNCHANGED nonRunVars
    /\ runs[r].pc = "loop"
    /\ runs' = [runs EXCEPT
                 ![r].pc = "raised",
                 ![r].result =
                    IF LoopRuns(runs[r].attempt, runs[r].retries)
                    THEN RuntimeError("An unexpected error occurred")
                    ELSE RuntimeError("Max retries reached. Failed to access page.")]
    /\ UNCHANGED cache

(***************************************************************************)
(* ahorramas/extract.py: get_category_total_size.  The text of the counter *)
(* is a sequence of characters; the word after the number is one token.    *)
(***************************************************************************)
Digits == {"1", "2", "3"}
DigitValue(c) == CASE c = "1" -> 1 [] c = "2" -> 2 [] c = "3" -> 3

\* The characters a number is written with: digits, '.', ' '.
NumberChars == Digits \cup {".", " "}
NumberTexts == UNION {[1..n -> NumberChars] : n \in 0..MaxCountLen}

\* The counter of a page: none, or an element whose text is a number text,
\* with or without the word that follows it.
NoCounter == [present |-> FALSE, text |-> <<>>]
CounterOf(txt) == [present |-> TRUE, text |-> txt]
CounterElements ==
    {NoCounter} \cup {CounterOf(n) : n \in NumberTexts}
                \cup {CounterOf(n \o <<" ", "Resultados">>) : n \in NumberTexts}
                \cup {CounterOf(<<"Resultados">>)}

\* str.strip(): leading and trailing whitespace removed.
RECURSIVE LStrip(_)
LStrip(txt) == IF txt # <<>> /\ Head(txt) = " " THEN LStrip(Tail(txt)) ELSE txt
RECURSIVE RStrip(_)
RStrip(txt) ==
    IF txt # <<>> /\ txt[Len(txt)] = " " THEN RStrip(SubSeq(txt, 1, Len(txt) - 1))
    ELSE txt
Strip(txt) == RStrip(LStrip(txt))

\* Line 263: counter_el.get_text(strip=True) if counter_el else ""
GetText(el) == IF el.present THEN Strip(el.text) ELSE <<>>

\* Line 266: text.split(" ", 1)[0], the text up to its first space.
RECURSIVE FirstToken(_)
FirstToken(txt) ==
    IF txt = <<>> \/ Head(txt) = " " THEN <<>>
    ELSE <<Head(txt)>> \o FirstToken(Tail(txt))

\* Line 267: re.sub(r"\D", "", first_token)
IsDigit(c) == c \in Digits
StripNonDigits(txt) == SelectSeq(txt, IsDigit)

\* int(digits)
RECURSIVE ToInt(_)
ToInt(digits) ==
    IF digits = <<>> THEN 0
    ELSE 10 * ToInt(SubSeq(digits, 1, Len(digits) - 1)) + DigitValue(digits[Len(digits)])

\* Lines 263-268.
TotalSizeOf(el) ==
    LET text == GetText(el)
        first_token == FirstToken(text)
        digits == StripNonDigits(first_token)
    IN IF digits # <<>> THEN ToInt(digits) ELSE 0

SizeIdle ==
    /\ t_pc = "drawn"
    /\ counter_el = NoCounter
    /\ t_size = 0

SizeInit ==
    /\ t_pc = "drawn"
    /\ counter_el \in CounterElements
    /\ t_size = 0

\* get_category_total_size on the page drawn.
GetCategoryTotalSize ==
    /\ UNCHANGED nonSizeVars
    /\ t_pc = "drawn"
    /\ t_size' = TotalSizeOf(counter_el)
    /\ t_pc' = "parsed"
    /\ UNCHANGED counter_el

(***************************************************************************)
(* ahorramas/extract.py: extract_products.  The HTML of a grid chunk is    *)
(* the sequence of its div.product tiles; a tile is the catalogue position *)
(* of the product it shows.                                                *)
(***************************************************************************)
CHUNK_SIZE == 100

TotalSizes == 0..MaxTotal
TileCounts == 0..MaxTiles

\* What the server answers to a request for the chunk at `offset`: n tiles.
ChunkHtml(offset, n) == [i \in 1..n |-> offset + i]

\* soup.select("div.product")
SelectProducts(html) == html

\* Lines 336-380: one record per tile.
ParseProducts(html) ==
    [i \in 1..Len(SelectProducts(html)) |-> [name |-> SelectProducts(html)[i]]]

\* A faulty variant: the loop goes on until nothing remains to subtract.
WhileRemainingOrNone(rem) == rem >= 0

\* `while remaining > 0`
WhileRemaining(rem) == rem > 0

\* A faulty variant: everything that remains is asked for in one chunk.
ChunkSzWhole(rem) == rem

\* A faulty variant: every chunk has the full size.
ChunkSzFull(rem) == CHUNK_SIZE

\* sz = CHUNK_SIZE if remaining > CHUNK_SIZE else remaining
ChunkSz(rem) == IF rem > CHUNK_SIZE THEN CHUNK_SIZE ELSE rem

\* A faulty variant: an empty chunk does not stop the pagination.
BreakEarlyNever(sz, html) == sz = 0

\* Line 385: sz == 0 or (sz > 0 and not soup.select("div.product"))
BreakEarly(sz, html) == sz = 0 \/ (sz > 0 /\ SelectProducts(html) = <<>>)

ExtractInit ==
    /\ e_pc = "idle"
    /\ total_size = 0
    /\ start = 0
    /\ remaining = 0
    /\ items = <<>>
    /\ chunks = <<>>
    /\ e_result = <<>>

\* Lines 295-314 (and 391-393 when the loop is not entered).
ExtractStart(total) ==
    /\ UNCHANGED nonExtractVars
    /\ e_pc # "loop"
    /\ total_size' = total
    /\ remaining' = total
    /\ start' = 0
    /\ items' = <<>>
    /\ chunks' = <<>>
    /\ e_result' = <<>>
    /\ e_pc' = IF WhileRemaining(total) THEN "loop" ELSE "done"

\* Lines 315-389: one iteration whose fetch returns n tiles; then the loop
\* test, and lines 391-393 when the loop is left.
FetchChunk(n) ==
    /\ UNCHANGED nonExtractVars
    /\ e_pc = "loop"
    /\ LET sz == ChunkSz(remaining)
           html == ChunkHtml(start, n)
           acc == items \o ParseProducts(html)
           left == BreakEarly(sz, html) \/ ~WhileRemaining(remaining - sz)
       IN /\ chunks' = Append(chunks, [start |-> start, sz |-> sz, n |-> n])
          /\ items' = acc
          /\ start' = start + sz
          /\ remaining' = remaining - sz
          /\ e_pc' = IF left THEN "done" ELSE "loop"
          /\ e_result' = IF left THEN acc ELSE e_result
    /\ UNCHANGED total_size

\* Line 331: fetch_html_content raises RuntimeError; it propagates.
FetchChunkRaises ==
    /\ UNCHANGED nonExtractVars
    /\ e_pc = "loop"
    /\ chunks' = Append(chunks, [start |-> start, sz |-> ChunkSz(remaining), n |-> -1])
    /\ e_pc' = "raised"
    /\ UNCHANGED <<total_size, start, remaining, items, e_result>>

(***************************************************************************)
(* carrefour/load.py, ahorramas/load.py: raw ingestion.  Every             *)
(* execute_query is a transaction of its own (utils/postgres.py).          *)
(***************************************************************************)
Loaders == {"carrefour_stores", "carrefour_products", "ahorramas_stores"}

\* datetime.now().strftime("%Y%m%d")
DateText(day) ==
    CASE day = 1 -> "20250101"
      [] day = 2 -> "20250102"
      [] day = 3 -> "20250103"
      [] OTHER -> "20250104"

\* <<schema, table>>; the ahorramas table is unqualified.
RawTableName(loader, day) ==
    CASE loader = "carrefour_stores" -> <<"raw", "supermarket_", DateText(day)>>
      [] loader = "carrefour_products" -> <<"raw", "products_", DateText(day)>>
      [] loader = "ahorramas_stores" -> <<"public", "raw_supermarket_", DateText(day)>>

\* A DataFrame cell is None or an int; a raw column is TEXT.
PyNone == [null |-> TRUE, v |-> 0]
PyInt(n) == [null |-> FALSE, v |-> n]
SqlNull == [null |-> TRUE, s |-> ""]
SqlText(str) == [null |-> FALSE, s |-> str]

\* str(row[col]) if row[col] is not None else None
TextValue(cell) == IF cell.null THEN SqlNull ELSE SqlText(PyStr(cell.v))
TextRow(row) == [c \in 1..Len(row) |-> TextValue(row[c])]

\* The DataFrames the model loads: their rows, in order.
DataFrames ==
    { <<>>,
      << <<PyInt(1), PyInt(2)>> >>,
      << <<PyInt(1), PyInt(2)>>, <<PyInt(2), PyNone>> >>,
      << <<PyInt(2), PyNone>>, <<PyInt(2), PyNone>> >> }

\* carrefour: DROP TABLE IF EXISTS ...; ahorramas has no such statement.
DropsFirst(loader) == loader \in {"carrefour_stores", "carrefour_products"}

DropTable(db, t) == [x \in DOMAIN db \ {t} |-> db[x]]
CreateTable(db, t) == [x \in DOMAIN db \cup {t} |-> IF x = t THEN <<>> ELSE db[x]]
InsertRow(db, t, row) == [db EXCEPT ![t] = Append(@, row)]
Forget(m, t) == [x \in DOMAIN m \ {t} |-> m[x]]
Record(m, t, d) == [x \in DOMAIN m \cup {t} |-> IF x = t THEN d ELSE m[x]]

RawInit ==
    /\ today = 1
    /\ tables = <<>>
    /\ r_pc = "idle"
    /\ r_job = [loader |-> "carrefour_stores", table |-> <<>>, data |-> <<>>,
                next |-> 1, repeat |-> FALSE, before |-> <<>>]
    /\ r_runs = 0
    /\ lastLoaded = <<>>

\* The clock passes midnight.
Midnight ==
    /\ UNCHANGED nonRawVars
    /\ today < MaxDay
    /\ today' = today + 1
    /\ UNCHANGED <<tables, r_pc, r_job, r_runs, lastLoaded>>

\* Lines 48-65: the table name of the current date, the statements.  The
\* job remembers what the table held when the load began (before: no
\* element when the table was absent).
RawBegin(loader, data) ==
    /\ UNCHANGED nonRawVars
    /\ r_pc \in {"idle", "done", "failed"}
    /\ r_runs < MaxIngests
    /\ r_runs' = r_runs + 1
    /\ LET t == RawTableName(loader, today)
       IN /\ r_job' = [loader |-> loader, table |-> t, data |-> data, next |-> 1,
                       repeat |-> t \in DOMAIN lastLoaded /\ lastLoaded[t] = data,
                       before |-> IF t \in DOMAIN tables THEN <<tables[t]>> ELSE <<>>]
          /\ lastLoaded' = Forget(lastLoaded, t)
    /\ r_pc' = IF DropsFirst(loader) THEN "drop" ELSE "create"
    /\ UNCHANGED <<today, tables>>

\* carrefour line 69: execute_query(drop_table_query).
RawDrop ==
    /\ UNCHANGED nonRawVars
    /\ r_pc = "drop"
    /\ tables' = DropTable(tables, r_job.table)
    /\ r_pc' = "create"
    /\ UNCHANGED <<today, r_job, r_runs, lastLoaded>>

\* carrefour line 70: CREATE TABLE (an error when the table exists);
\* ahorramas line 65: CREATE TABLE IF NOT EXISTS.  Then the loop over the rows,
\* and the return when there is none.
RawCreate ==
    /\ UNCHANGED nonRawVars
    /\ r_pc = "create"
    /\ IF r_job.table \in DOMAIN tables
       THEN IF DropsFirst(r_job.loader)
            THEN /\ r_pc' = "failed"
                 /\ UNCHANGED <<tables, lastLoaded>>
            ELSE /\ r_pc' = IF r_job.data = <<>> THEN "done" ELSE "insert"
                 /\ lastLoaded' = IF r_job.data = <<>>
                                  THEN Record(lastLoaded, r_job.table, r_job.data)
                                  ELSE lastLoaded
                 /\ UNCHANGED tables
       ELSE /\ tables' = CreateTable(tables, r_job.table)
            /\ r_pc' = IF r_job.data = <<>> THEN "done" ELSE "insert"
            /\ lastLoaded' = IF r_job.data = <<>>
                             THEN Record(lastLoaded, r_job.table, r_job.data)
                             ELSE lastLoaded
    /\ UNCHANGED <<today, r_job, r_runs>>

\* carrefour lines 75-89, ahorramas lines 70-84: one INSERT, committed; after
\* the last row the function returns.
RawInsert ==
    /\ UNCHANGED nonRawVars
    /\ r_pc = "insert"
    /\ r_job.table \in DOMAIN tables
    /\ tables' = InsertRow(tables, r_job.table, TextRow(r_job.data[r_job.next]))
    /\ r_job' = [r_job EXCEPT !.next = @ + 1]
    /\ IF r_job.next = Len(r_job.data)
       THEN /\ r_pc' = "done"
            /\ lastLoaded' = Record(lastLoaded, r_job.table, r_job.data)
       ELSE UNCHANGED <<r_pc, lastLoaded>>
    /\ UNCHANGED <<today, r_runs>>

\* A statement fails: execute_query rolls it back and re-raises, the load
\* logs and re-raises (carrefour lines 95-97, ahorramas lines 91-93).
RawFail ==
    /\ UNCHANGED nonRawVars
    /\ r_pc \in {"drop", "create", "insert"}
    /\ r_pc' = "failed"
    /\ UNCHANGED <<today, tables, r_job, r_runs, lastLoaded>>

(***************************************************************************)
(* carrefour/load.py: the warehouse, raw -> staging -> production, for one *)
(* entity kind (stores: supermarkets tables; products: products tables).   *)
(* The two kinds share no table, so a behaviour stays with one kind.       *)
(* Every execute_query is a transaction of its own (utils/postgres.py):    *)
(* one step of the model is one statement, committed or rolled back.       *)
(***************************************************************************)
Kinds == {"stores", "products"}

\* A table name is a sequence of tokens: f"supermarket_{current_date}".
RawPrefix(kind) == IF kind = "stores" THEN "supermarket_" ELSE "products_"
RawName(kind, day) == <<RawPrefix(kind), DateText(day)>>

\* str.replace(old, ""): every occurrence of the token is removed.
Replace(name, old) == SelectSeq(name, LAMBDA tok : tok # old)

\* transform-staging and run-pipeline of each source build the name they
\* hand to the staging loader: f"supermarket_{current_date}" (carrefour
\* main.py 73-74, ahorramas main.py 79-80), f"products_{current_date}"
\* (carrefour main.py 180-181).
TransformStagingName(loader, day) ==
    CASE loader = "carrefour_stores" -> RawName("stores", day)
      [] loader = "carrefour_products" -> RawName("products", day)
      [] loader = "ahorramas_stores" -> <<"supermarket_", DateText(day)>>

\* f"supermarkets_{extracted_date}" / f"products_{extracted_date}", with
\* extracted_date = raw_table_name.replace(prefix, "") (lines 213-219, 506-512).
PartitionPrefix(kind) == IF kind = "stores" THEN "supermarkets_" ELSE "products_"
StagingPartitionName(kind, raw_table_name) ==
    <<PartitionPrefix(kind)>> \o Replace(raw_table_name, RawPrefix(kind))

\* f"supermarkets_{latest_date.strftime('%Y%m%d')}" (lines 292, 584).
ProdPartitionName(kind, latest_date) == <<PartitionPrefix(kind), DateText(latest_date)>>

\* '{d[:4]}-{d[4:6]}-{d[6:8]}'::date, the date as a day number.
DateValue(text) ==
    CASE text = <<"20250101">> -> 1
      [] text = <<"20250102">> -> 2
      [] text = <<"20250103">> -> 3
      [] OTHER -> 4

\* Characters of a numeric text.
SqlDigits == {"0", "1", "2", "3", "4", "5", "6", "7", "8", "9"}
DigitChars == <<"0", "1", "2", "3", "4", "5", "6", "7", "8", "9">>
DigitVal(c) == (CHOOSE i \in 1..10 : DigitChars[i] = c) - 1

\* text ~ '^[...]+$' for a character class.
Matches(text, class) == text # <<>> /\ \A i \in 1..Len(text) : text[i] \in class
LatLonPattern == SqlDigits \cup {".", "-"}
PricePattern == SqlDigits \cup {"."}

\* The input syntax of numeric, for a text of digits, '.' and '-': an
\* optional sign, digits with at most one point, at least one digit.
Unsigned(text) == IF text # <<>> /\ Head(text) = "-" THEN Tail(text) ELSE text
PointsOf(u) == {i \in 1..Len(u) : u[i] = "."}
NumericSyntax(text) ==
    LET u == Unsigned(text)
    IN /\ \A i \in 1..Len(u) : u[i] \in SqlDigits \cup {"."}
       /\ Cardinality(PointsOf(u)) <= 1
       /\ \E i \in 1..Len(u) : u[i] \in SqlDigits

IntDigits(u) ==
    IF PointsOf(u) = {} THEN u
    ELSE SubSeq(u, 1, (CHOOSE i \in PointsOf(u) : TRUE) - 1)
FracDigits(u) ==
    IF PointsOf(u) = {} THEN <<>>
    ELSE SubSeq(u, (CHOOSE i \in PointsOf(u) : TRUE) + 1, Len(u))

RECURSIVE StripZeros(_)
StripZeros(ds) == IF ds # <<>> /\ Head(ds) = "0" THEN StripZeros(Tail(ds)) ELSE ds

RECURSIVE NumVal(_)
NumVal(ds) ==
    IF ds = <<>> THEN 0
    ELSE 10 * NumVal(SubSeq(ds, 1, Len(ds) - 1)) + DigitVal(ds[Len(ds)])

RECURSIVE Pow10(_)
Pow10(n) == IF n = 0 THEN 1 ELSE 10 * Pow10(n - 1)

\* A numeric value: sign, integer part, fraction in units of 10^-scale.
SqlNumeric(neg, int, frac) ==
    [null |-> FALSE, neg |-> neg /\ (int # 0 \/ frac # 0), int |-> int, frac |-> frac]

Value(v) == [ok |-> TRUE, val |-> v, err |-> "none"]
SqlError(e) == [ok |-> FALSE, val |-> SqlNull, err |-> e]

\* CAST(text AS DECIMAL(precision, scale)): the value rounded to the scale,
\* an error for a text that is no number or a value too large for the type.
CastDecimal(text, precision, scale) ==
    IF ~NumericSyntax(text) THEN SqlError("invalid_text_representation")
    ELSE LET u == Unsigned(text)
             ip == StripZeros(IntDigits(u))
             fp == FracDigits(u)
             kept == IF Len(fp) < scale THEN Len(fp) ELSE scale
             f == NumVal(SubSeq(fp, 1, kept)) * Pow10(scale - kept)
             up == Len(fp) > scale /\ DigitVal(fp[scale + 1]) >= 5
         IN IF Len(ip) > precision - scale
            THEN SqlError("numeric_value_out_of_range")
            ELSE LET f1 == IF up THEN f + 1 ELSE f
                     carry == f1 = Pow10(scale)
                     i1 == IF carry THEN NumVal(ip) + 1 ELSE NumVal(ip)
                 IN IF i1 >= Pow10(precision - scale)
                    THEN SqlError("numeric_value_out_of_range")
                    ELSE Value(SqlNumeric(text[1] = "-", i1, IF carry THEN 0 ELSE f1))

\* CASE WHEN col ~ pattern THEN CAST(col AS DECIMAL(p, s)) ELSE NULL END
\* (a NULL column matches nothing).
CastIfMatches(cell, class, precision, scale) ==
    IF ~cell.null /\ Matches(cell.s, class)
    THEN CastDecimal(cell.s, precision, scale)
    ELSE Value(SqlNull)

\* COALESCE(col, '')
CoalesceEmpty(cell) == IF cell.null THEN SqlText("") ELSE cell

\* The column lists: what extract_supermarkets and
\* extract_products_from_html_files produce (carrefour/extract.py 106-117,
\* 286-296), the fields of a Carrefour "impressions" entry, and what the
\* staging SELECT reads.
StoreColumns == {"store_id", "address", "schedule", "holidays", "latitude",
                 "longitude", "name", "category"}
ProductColumns == {"discount_value", "price", "price_per_unit", "name", "image",
                   "url", "supermarket", "source_file", "extracted_category"}
ImpressionColumns == {"coupon", "price", "item_variant", "item_name"}
StagingReads(kind) ==
    IF kind = "stores"
    THEN {"store_id", "address", "schedule", "holidays", "latitude", "longitude"}
    ELSE {"coupon", "price", "item_variant", "item_name"}

\* A DataFrame cell is None or a str; a raw column is TEXT:
\* str(row[col]) if row[col] is not None else None.
PyStrCell(str) == [none |-> FALSE, v |-> str]
PyNoneCell == [none |-> TRUE, v |-> ""]
RawRow(row) ==
    [c \in DOMAIN row |-> IF row[c].none THEN SqlNull ELSE SqlText(row[c].v)]

StoreRow(id, address, lat, lon) ==
    [store_id |-> id, address |-> address, latitude |-> lat, longitude |-> lon]
ImpressionRow(coupon, price, name) ==
    [coupon |-> coupon, price |-> price, item_name |-> name]
ProductRow(discount, price, name) ==
    [discount_value |-> discount, price |-> price, name |-> name]

\* The frames handed to raw ingestion: columns, and rows in order (of a row,
\* the cells the later stages read; schedule, holidays, item_variant are
\* treated as address and coupon are).
StoreFrames ==
    { [cols |-> StoreColumns, rows |->
         << StoreRow(PyStrCell("s1"), PyStrCell("a1"),
                     PyStrCell(<<"4", "0", ".", "4">>), PyStrCell(<<"-", "3", ".", "7">>)) >>],
      [cols |-> StoreColumns, rows |->
         << StoreRow(PyNoneCell, PyStrCell("a2"),
                     PyStrCell(<<"4", "0", ".", "4", "0">>), PyStrCell(<<"-", "3", ".", "7">>)),
            StoreRow(PyStrCell("s2"), PyNoneCell,
                     PyStrCell(<<"n", "a", "n">>), PyStrCell(<<"1", "2", "3", ".", "5">>)) >>],
      [cols |-> StoreColumns, rows |->
         << StoreRow(PyStrCell("s1"), PyStrCell("a1"),
                     PyStrCell(<<"1", ".", "2", ".", "3">>), PyStrCell(<<"-", "3", ".", "7">>)) >>] }

ProductFrames ==
    { [cols |-> ImpressionColumns, rows |->
         << ImpressionRow(PyStrCell("c1"), PyStrCell(<<"1", ".", "5">>), PyStrCell("milk")) >>],
      [cols |-> ImpressionColumns, rows |->
         << ImpressionRow(PyNoneCell, PyStrCell(<<"1", ".", "9", "9", "5">>), PyStrCell("milk")),
            ImpressionRow(PyNoneCell, PyStrCell(<<"-", "1">>), PyStrCell("milk")) >>],
      [cols |-> ImpressionColumns, rows |->
         << ImpressionRow(PyNoneCell, PyStrCell(<<"1", "2", "3", "4", "5", "6", "7", "8", "9">>),
                          PyNoneCell) >>],
      [cols |-> ProductColumns, rows |->
         << ProductRow(PyStrCell(""), PyStrCell(<<"1", ".", "5">>), PyStrCell("Milk")) >>] }

Frames(kind) == IF kind = "stores" THEN StoreFrames ELSE ProductFrames

\* What extract_supermarkets / extract_products_from_html_files return: the
\* extractor's columns; of a store, an identifier and str(float) coordinates
\* (extract.py 62-78, 106-117).
ExtractedFrames(kind) ==
    {f \in Frames(kind) :
        IF kind = "stores"
        THEN /\ f.cols = StoreColumns
             /\ \A i \in 1..Len(f.rows) :
                   /\ ~f.rows[i].store_id.none
                   /\ \A c \in {"latitude", "longitude"} :
                         ~f.rows[i][c].none /\ NumericSyntax(f.rows[i][c].v)
        ELSE f.cols = ProductColumns}

Carrefour == SqlText("carrefour")
Ahorramas == SqlText("ahorramas")

\* The source column of a staging or production row.
SourceOf(kind, row) == IF kind = "stores" THEN row.name ELSE row.supermarket

\* Lines 246-261 and 538-550: the SELECT list, for one raw row.
StagedRow(kind, row, date) ==
    IF kind = "stores"
    THEN LET lat == CastIfMatches(row.latitude, LatLonPattern, 10, 8)
             lon == CastIfMatches(row.longitude, LatLonPattern, 11, 8)
         IN IF ~lat.ok THEN lat
            ELSE IF ~lon.ok THEN lon
            ELSE Value([store_id |-> CoalesceEmpty(row.store_id),
                        address |-> CoalesceEmpty(row.address),
                        latitude |-> lat.val, longitude |-> lon.val,
                        extracted_date |-> date, name |-> Carrefour])
    ELSE LET price == CastIfMatches(row.price, PricePattern, 10, 2)
         IN IF ~price.ok THEN price
            ELSE Value([discount_value |-> CoalesceEmpty(row.coupon),
                        price |-> price.val,
                        name |-> CoalesceEmpty(row.item_name),
                        supermarket |-> Carrefour,
                        extracted_date |-> date])

\* INSERT ... SELECT ... FROM raw.<name>: every row, or the first error.
RECURSIVE StagedRows(_, _, _)
StagedRows(kind, rows, date) ==
    IF rows = <<>> THEN Value(<<>>)
    ELSE LET first == StagedRow(kind, Head(rows), date)
             rest == StagedRows(kind, Tail(rows), date)
         IN IF ~first.ok THEN first
            ELSE IF ~rest.ok THEN rest
            ELSE Value(<<first.val>> \o rest.val)

\* A faulty variant: nothing is deleted before the insert.
DeleteMatchesNothing(kind, row, date) == FALSE

\* Lines 230-234 and 523-526: the WHERE clause of the DELETE.
DeleteMatches(kind, row, date) ==
    IF kind = "stores"
    THEN row.extracted_date = date /\ row.name = Carrefour
    ELSE row.extracted_date = date

DeleteFrom(kind, rows, date) ==
    SelectSeq(rows, LAMBDA row : ~DeleteMatches(kind, row, date))

\* Line 182 and line 472: the UNIQUE constraint of the production table.
UniqueConstraint(kind) ==
    IF kind = "stores" THEN {"store_id", "extracted_date", "name"}
    ELSE {"name", "supermarket", "extracted_date"}

\* Line 312 and line 603: ON CONFLICT (...); lines 306, 598: DISTINCT ON (...).
ConflictTarget(kind) ==
    IF kind = "stores" THEN {"latitude", "longitude", "extracted_date", "name"}
    ELSE {"name", "supermarket", "extracted_date"}

\* PostgreSQL infers the arbiter index of ON CONFLICT (cols) from the unique
\* indexes of the table: without one over exactly these columns the
\* statement is rejected ("there is no unique or exclusion constraint
\* matching the ON CONFLICT specification").
ArbiterExists(kind) == ConflictTarget(kind) = UniqueConstraint(kind)

ProdKey(kind, row) == [c \in ConflictTarget(kind) |-> row[c]]

\* Lines 281 and 573: the rows MAX(extracted_date) ranges over.
LatestScope(kind, rows) ==
    IF kind = "stores" THEN SelectSeq(rows, LAMBDA row : row.name = Carrefour)
    ELSE rows

MaxDate(rows) ==
    LET dates == {rows[i].extracted_date : i \in 1..Len(rows)}
    IN CHOOSE d \in dates : \A e \in dates : e <= d

\* Lines 309 and 601: the WHERE clause of the upsert's SELECT.
Promoted(kind, rows, latest) ==
    IF kind = "stores"
    THEN SelectSeq(rows, LAMBDA row : row.extracted_date = latest /\ row.name = Carrefour)
    ELSE SelectSeq(rows, LAMBDA row : row.extracted_date = latest)

\* The collation of the store identifiers the model uses.
IdRank(cell) ==
    CASE cell.null -> 0
      [] cell.s = "" -> 1
      [] cell.s = "s1" -> 2
      [] OTHER -> 3

\* Lines 310-311 and 602: row a sorts before row b within one DISTINCT ON
\* group: (store_id IS NULL), store_id DESC for stores; products have no
\* ordering column beyond the group key.
SortsBefore(kind, a, b) ==
    /\ kind = "stores"
    /\ \/ ~a.store_id.null /\ b.store_id.null
       \/ a.store_id.null = b.store_id.null /\ IdRank(a.store_id) > IdRank(b.store_id)

SeqToSet(rows) == {rows[i] : i \in 1..Len(rows)}

\* DISTINCT ON keeps the first row of each group in sort order; among rows
\* that sort equal, the one the executor happens to read first.
Firsts(kind, rows, key) ==
    LET group == {r \in SeqToSet(rows) : ProdKey(kind, r) = key}
    IN {r \in group : \A o \in group : ~SortsBefore(kind, o, r)}

Keys(kind, rows) == {ProdKey(kind, r) : r \in SeqToSet(rows)}

\* The choices DISTINCT ON can make: one first row for each group.
Selections(kind, rows) ==
    {pick \in [Keys(kind, rows) -> SeqToSet(rows)] :
        \A key \in Keys(kind, rows) : pick[key] \in Firsts(kind, rows, key)}

\* Lines 312-317 and 603-609: DO UPDATE SET ...
\* (last_updated is left out of the rows of the model).
Merged(kind, old, new) ==
    IF kind = "stores"
    THEN [old EXCEPT !.address = new.address,
                     !.store_id = IF new.store_id.null THEN old.store_id
                                  ELSE new.store_id]
    ELSE [old EXCEPT !.discount_value = new.discount_value, !.price = new.price]

\* A faulty variant: no row is ever taken for a conflict, every selected row
\* is inserted.
ConflictsNever(kind, row, key) == FALSE

\* A unique index takes two keys for equal only if no column is NULL
\* (extracted_date is the date literal of the statement, never NULL).
Conflicts(kind, row, key) ==
    /\ ProdKey(kind, row) = key
    /\ \A c \in ConflictTarget(kind) \ {"extracted_date"} : ~row[c].null

\* The keys of the selection, in the order of their first row in staging.
RECURSIVE KeyOrder(_, _, _)
KeyOrder(kind, rows, seen) ==
    IF rows = <<>> THEN <<>>
    ELSE LET key == ProdKey(kind, Head(rows))
         IN IF key \in seen THEN KeyOrder(kind, Tail(rows), seen)
            ELSE <<key>> \o KeyOrder(kind, Tail(rows), seen \cup {key})

\* A faulty variant: production is reloaded, the selected rows taking the
\* place of what it held.
UpsertedReplacing(kind, prod, keys, pick) == [i \in 1..Len(keys) |-> pick[keys[i]]]

\* INSERT ... ON CONFLICT DO UPDATE of the selected rows, one after another.
RECURSIVE Upserted(_, _, _, _)
Upserted(kind, prod, keys, pick) ==
    IF keys = <<>> THEN prod
    ELSE LET new == pick[Head(keys)]
             hit == {i \in 1..Len(prod) : Conflicts(kind, prod[i], ProdKey(kind, new))}
             next == IF hit = {} THEN Append(prod, new)
                     ELSE [i \in 1..Len(prod) |->
                              IF i \in hit THEN Merged(kind, prod[i], new) ELSE prod[i]]
         IN Upserted(kind, next, Tail(keys), pick)

\* Rows of another source in staging: what the consolidation of the
\* Ahorramas pipeline leaves there for a date.
OtherRows(kind, date) ==
    IF kind = "stores"
    THEN << [store_id |-> SqlText("s1"), address |-> SqlText("a9"),
             latitude |-> SqlNumeric(FALSE, 40, 40000000),
             longitude |-> SqlNumeric(TRUE, 3, 70000000),
             extracted_date |-> date, name |-> Ahorramas] >>
    ELSE << [discount_value |-> SqlText(""), price |-> SqlNumeric(FALSE, 1, 20),
             name |-> SqlText("milk"), supermarket |-> Ahorramas,
             extracted_date |-> date] >>

NoFrame == [cols |-> {}, rows |-> <<>>]

\* The rows of (date, carrefour) in a staging or production table.
SourceRows(kind, rows, date, source) ==
    SelectSeq(rows, LAMBDA row : row.extracted_date = date /\ SourceOf(kind, row) = source)

\* extracted_date of the running staging call.
ExtractedDate == DateValue(Replace(w_call.name, RawPrefix(entity)))

\* Before the first call, for some of the entity kinds: the database (raw
\* tables by name, the staging and the production table of the entity kind,
\* rows in heap order, the partitions created) is empty.
WarehouseStart(kinds) ==
    /\ entity \in kinds
    /\ pgdb = [raw |-> <<>>, staging |-> <<>>, prod |-> <<>>, parts |-> {}]
    /\ w_pc = "idle"
    /\ w_call = [fn |-> "none", name |-> <<>>, data |-> NoFrame, latest |-> 0,
                 repeat |-> FALSE, prev |-> <<>>, retry |-> FALSE]
    /\ w_err = "none"
    /\ w_log = <<>>
    /\ w_calls = 0
    /\ staged = <<>>
    /\ promoted = [made |-> FALSE, src |-> {}, out |-> {}]

WarehouseIdle == WarehouseStart({"stores"})
WarehouseInit == WarehouseStart(Kinds)

StageOf(pc) ==
    CASE pc = "raw" -> "RAW"
      [] pc = "schemas" -> "SCHEMAS"
      [] pc \in {"partition", "delete", "insert"} -> "STAGING"
      [] pc \in {"latest", "prod_partition", "upsert"} -> "PRODUCTION"

Logged(pc, outcome) == Append(w_log, [stage |-> StageOf(pc), stmt |-> pc, outcome |-> outcome])

\* A command or a function of the load module is called.
Begin(fn, name, data, pc) ==
    /\ w_pc \in {"idle", "done", "raised"}
    /\ w_calls < MaxCalls
    /\ w_calls' = w_calls + 1
    /\ w_call' = [fn |-> fn, name |-> name, data |-> data, latest |-> 0,
                  repeat |-> fn = "staging" /\ name \in DOMAIN staged,
                  prev |-> IF fn = "staging" /\ name \in DOMAIN staged
                           THEN staged[name] ELSE <<>>,
                  retry |-> w_pc = "raised" /\ w_err = "fault" /\ w_call.fn = fn]
    /\ w_pc' = pc
    /\ w_err' = "none"
    /\ w_log' = <<>>
    /\ UNCHANGED <<entity, pgdb, staged, promoted>>

\* A faulty variant: the error is logged and the caller goes on with the
\* statement that follows.
AfterErrorGoesOn(next) == next

\* `raise`: the error leaves the function and the command; nothing that
\* follows is executed.
AfterError(next) == "raised"

\* Where control goes after the last statement of a stage.
AfterStage(next) == IF w_call.fn = "pipeline" THEN next ELSE "done"

\* execute_query raises: rollback (utils/postgres.py 104-107), nothing of
\* the statement is kept.
Raises(e, next) ==
    /\ w_pc' = AfterError(next)
    /\ w_err' = e
    /\ w_log' = Logged(w_pc, "raised")
    /\ UNCHANGED <<entity, pgdb, w_call, w_calls, staged, promoted>>

NextPc(pc) ==
    CASE pc = "raw" -> AfterStage("schemas")
      [] pc = "schemas" -> "partition"
      [] pc = "partition" -> "delete"
      [] pc = "delete" -> "insert"
      [] pc = "insert" -> AfterStage("latest")
      [] pc = "latest" -> "prod_partition"
      [] pc = "prod_partition" -> "upsert"
      [] pc = "upsert" -> "done"

Advance ==
    /\ w_pc' = NextPc(w_pc)
    /\ w_log' = Logged(w_pc, "ok")
    /\ UNCHANGED <<entity, w_err, w_calls>>

\* load_raw_data_to_postgres(data) / load_products_raw_data_to_postgres(data)
CallRaw(data) ==
    /\ UNCHANGED nonWarehouseVars
    /\ UNCHANGED today
    /\ data \in Frames(entity)
    /\ Begin("raw", <<>>, data, "raw")

\* transform-staging (main.py 63-85): the table of the current date.
CallStaging ==
    /\ UNCHANGED nonWarehouseVars
    /\ UNCHANGED today
    /\ Begin("staging", RawName(entity, today), NoFrame, "partition")

\* deploy-prod (main.py 88-104).
CallProd ==
    /\ UNCHANGED nonWarehouseVars
    /\ UNCHANGED today
    /\ Begin("prod", <<>>, NoFrame, "latest")

\* run-pipeline (main.py 107-126, 169-186): extraction, then the name of the
\* raw table of the current date.
PipelineBegin(data) ==
    /\ UNCHANGED nonWarehouseVars
    /\ UNCHANGED today
    /\ data \in ExtractedFrames(entity)
    /\ Begin("pipeline", RawName(entity, today), data, "raw")

Put(m, t, v) == [x \in DOMAIN m \cup {t} |-> IF x = t THEN v ELSE m[x]]
RawTable(data) == [cols |-> data.cols,
                   rows |-> [i \in 1..Len(data.rows) |-> RawRow(data.rows[i])]]

\* Raw ingestion runs to its end (lines 48-93, 339-385): the table of the
\* current date is dropped, created and filled.
RawStage ==
    /\ UNCHANGED nonWarehouseVars
    /\ UNCHANGED today
    /\ w_pc = "raw"
    /\ LET t == RawName(entity, today)
       IN /\ pgdb' = [pgdb EXCEPT !.raw = Put(@, t, RawTable(w_call.data))]
          /\ staged' = Forget(staged, t)
    /\ Advance
    /\ UNCHANGED <<w_call, promoted>>

\* Raw ingestion raises at one of its statements: at the DROP (the table is
\* as it was), at the CREATE (no table), or at an INSERT (the rows before it).
RawStageRaises ==
    /\ UNCHANGED nonWarehouseVars
    /\ UNCHANGED today
    /\ w_pc = "raw"
    /\ LET t == RawName(entity, today)
           full == RawTable(w_call.data)
       IN /\ \/ UNCHANGED pgdb
             \/ pgdb' = [pgdb EXCEPT !.raw = Forget(@, t)]
             \/ \E n \in 0..(Len(full.rows) - 1) :
                   pgdb' = [pgdb EXCEPT !.raw =
                            Put(@, t, [full EXCEPT !.rows = SubSeq(full.rows, 1, n)])]
          /\ staged' = Forget(staged, t)
    /\ w_pc' = AfterError(NextPc(w_pc))
    /\ w_err' = "fault"
    /\ w_log' = Logged(w_pc, "raised")
    /\ UNCHANGED <<entity, w_call, w_calls, promoted>>

\* run-pipeline step 2 (main.py 130-131, 190-191): create_staging_*_table,
\* create_prod_*_table; then the staging call.
PipelineSchemas ==
    /\ UNCHANGED nonWarehouseVars
    /\ UNCHANGED today
    /\ w_pc = "schemas"
    /\ w_call' = [w_call EXCEPT
                    !.repeat = w_call.name \in DOMAIN staged,
                    !.prev = IF w_call.name \in DOMAIN staged
                             THEN staged[w_call.name] ELSE <<>>]
    /\ Advance
    /\ UNCHANGED <<pgdb, staged, promoted>>

\* Lines 213-227, 506-520: the staging table, its indexes and the partition
\* of the date, each created if absent.
StagingPartition ==
    /\ UNCHANGED nonWarehouseVars
    /\ UNCHANGED today
    /\ w_pc = "partition"
    /\ pgdb' = [pgdb EXCEPT !.parts = @ \cup {<<"staging", ExtractedDate>>}]
    /\ Advance
    /\ UNCHANGED <<w_call, staged, promoted>>

\* Lines 230-236, 523-528: DELETE FROM staging...
StagingDelete ==
    /\ UNCHANGED nonWarehouseVars
    /\ UNCHANGED today
    /\ w_pc = "delete"
    /\ pgdb' = [pgdb EXCEPT !.staging = DeleteFrom(entity, @, ExtractedDate)]
    /\ Advance
    /\ UNCHANGED <<w_call, staged, promoted>>

\* Lines 242-264, 534-553: INSERT INTO staging... SELECT ... FROM raw.<name>
StagingInsert ==
    /\ UNCHANGED nonWarehouseVars
    /\ UNCHANGED today
    /\ w_pc = "insert"
    /\ LET t == w_call.name
       IN IF t \notin DOMAIN pgdb.raw
          THEN Raises("undefined_table", NextPc(w_pc))
          ELSE IF ~(StagingReads(entity) \subseteq pgdb.raw[t].cols)
          THEN Raises("undefined_column", NextPc(w_pc))
          ELSE LET new == StagedRows(entity, pgdb.raw[t].rows, ExtractedDate)
               IN IF ~new.ok
                  THEN Raises(new.err, NextPc(w_pc))
                  ELSE /\ pgdb' = [pgdb EXCEPT !.staging = @ \o new.val]
                       /\ staged' = Put(staged, t,
                              SourceRows(entity, pgdb.staging \o new.val,
                                         ExtractedDate, Carrefour))
                       /\ Advance
                       /\ UNCHANGED <<w_call, promoted>>

\* Lines 277-289, 569-581: the production table and its constraint, created
\* if absent; SELECT MAX(extracted_date), which returns one row also over no
\* row at all, its value None: `latest_date.strftime` (lines 292, 584) then
\* raises AttributeError.
ProdLatest ==
    /\ UNCHANGED nonWarehouseVars
    /\ UNCHANGED today
    /\ w_pc = "latest"
    /\ LET scope == LatestScope(entity, pgdb.staging)
       IN IF scope = <<>>
          THEN Raises("attribute_error", NextPc(w_pc))
          ELSE /\ w_call' = [w_call EXCEPT !.latest = MaxDate(scope)]
               /\ Advance
               /\ UNCHANGED <<pgdb, staged, promoted>>

\* Lines 292-300, 584-592: the partition of the latest date.
ProdPartition ==
    /\ UNCHANGED nonWarehouseVars
    /\ UNCHANGED today
    /\ w_pc = "prod_partition"
    /\ pgdb' = [pgdb EXCEPT !.parts = @ \cup {<<"prod", w_call.latest>>}]
    /\ Advance
    /\ UNCHANGED <<w_call, staged, promoted>>

\* Lines 302-320, 594-612: the upsert.
ProdUpsert ==
    /\ UNCHANGED nonWarehouseVars
    /\ UNCHANGED today
    /\ w_pc = "upsert"
    /\ IF ~ArbiterExists(entity)
       THEN Raises("invalid_column_reference", NextPc(w_pc))
       ELSE LET src == Promoted(entity, pgdb.staging, w_call.latest)
            IN \E pick \in Selections(entity, src) :
                  LET out == Upserted(entity, pgdb.prod, KeyOrder(entity, src, {}), pick)
                  IN /\ pgdb' = [pgdb EXCEPT !.prod = out]
                     /\ promoted' =
                           IF promoted.made THEN promoted
                           ELSE [made |-> TRUE, src |-> SeqToSet(src),
                                 out |-> {r \in SeqToSet(out) :
                                            r.extracted_date = w_call.latest}]
                     /\ Advance
                     /\ UNCHANGED <<w_call, staged>>

\* A statement of the staging or the production stage fails (connection
\* lost, lock timeout, ...): utils/postgres.py 104-110.
StatementFails ==
    /\ UNCHANGED nonWarehouseVars
    /\ UNCHANGED today
    /\ w_pc \in {"schemas", "partition", "delete", "insert", "latest",
                 "prod_partition", "upsert"}
    /\ Raises("fault", NextPc(w_pc))

\* The staging consolidation of the Ahorramas pipeline for the current date.
OtherSourceStaging ==
    /\ UNCHANGED nonWarehouseVars
    /\ UNCHANGED today
    /\ SourceRows(entity, pgdb.staging, today, Ahorramas) = <<>>
    /\ pgdb' = [pgdb EXCEPT
                !.parts = @ \cup {<<"staging", today>>},
                !.staging = @ \o OtherRows(entity, today)]
    /\ UNCHANGED <<entity, w_pc, w_call, w_err, w_log, w_calls, staged, promoted>>

(***************************************************************************)
(* carrefour/extract.py, ahorramas/extract.py: the extraction functions.   *)
(* A text is a sequence of characters.  A cell is the value of an          *)
(* attribute or of a key: a text, None, or nothing (no such attribute or   *)
(* key).                                                                   *)
(***************************************************************************)
TextCell(chars) == [kind |-> "str", v |-> chars]
NoneCell == [kind |-> "none", v |-> <<>>]
AbsentCell == [kind |-> "absent", v |-> <<>>]

\* m.get(attr): None when the marker has no such attribute.
Get(cell) == IF cell.kind = "str" THEN cell ELSE NoneCell
\* x or ""
OrEmpty(cell) == IF cell.kind = "str" THEN cell.v ELSE <<>>
\* a or b or ""
RECURSIVE FirstTruthy(_)
FirstTruthy(cells) ==
    IF cells = <<>> THEN <<>>
    ELSE IF OrEmpty(Head(cells)) # <<>> THEN OrEmpty(Head(cells))
    ELSE FirstTruthy(Tail(cells))

\* float(text), for the texts of the model: a decimal text of at most six
\* decimals is its value, in millionths; "nan" is the NaN; any other text
\* raises ValueError.
PyNaN == [kind |-> "nan", micro |-> 0]
PyValueError == [kind |-> "error", micro |-> 0]
PyFloat(text) ==
    IF text = <<"n", "a", "n">> THEN PyNaN
    ELSE IF ~NumericSyntax(text) \/ Len(FracDigits(Unsigned(text))) > 6 THEN PyValueError
    ELSE LET u == Unsigned(text)
             fp == FracDigits(u)
             abs == NumVal(IntDigits(u)) * Pow10(6) + NumVal(fp) * Pow10(6 - Len(fp))
         IN [kind |-> "num", micro |-> IF Head(text) = "-" THEN 0 - abs ELSE abs]

\* -90.0 <= lat_f <= 90.0 and -180.0 <= lng_f <= 180.0 (every comparison
\* with the NaN is false).
LowerUpper(f, bound) ==
    f.kind = "num" /\ 0 - bound * Pow10(6) <= f.micro /\ f.micro <= bound * Pow10(6)
InBounds(lat_f, lng_f) == LowerUpper(lat_f, 90) /\ LowerUpper(lng_f, 180)

\* The decimal digits of a natural number, at least `width` of them.
RECURSIVE IntChars(_, _)
IntChars(n, width) ==
    IF n < 10 /\ width <= 1 THEN <<DigitChars[n + 1]>>
    ELSE IntChars(n \div 10, width - 1) \o <<DigitChars[(n % 10) + 1]>>

Magnitude(f) == IF f.micro < 0 THEN 0 - f.micro ELSE f.micro
SignChars(f) == IF f.micro < 0 THEN <<"-">> ELSE <<>>

\* f"{x:.5f}": five decimals, the sixth rounded (the texts of the model
\* have no sixth decimal 5, whose rounding depends on the binary value).
Format5f(f) ==
    LET tenth == Magnitude(f) \div 10 + (IF Magnitude(f) % 10 >= 5 THEN 1 ELSE 0)
    IN SignChars(f) \o IntChars(tenth \div Pow10(5), 1) \o <<".">>
          \o IntChars(tenth % Pow10(5), 5)

\* str(x) of a float: the shortest decimal text, at least one decimal.
RECURSIVE StripTrailingZeros(_)
StripTrailingZeros(ds) ==
    IF Len(ds) > 1 /\ ds[Len(ds)] = "0" THEN StripTrailingZeros(SubSeq(ds, 1, Len(ds) - 1))
    ELSE ds
StrFloat(f) ==
    SignChars(f) \o IntChars(Magnitude(f) \div Pow10(6), 1) \o <<".">>
       \o StripTrailingZeros(IntChars(Magnitude(f) % Pow10(6), 6))

\* A <marker/> of locations.xml: its identifier attributes (codat and tcm
\* are read as codsa and id are), its coordinates, its address (schedule,
\* name and category are read as the address is).
Marker(codsa, id, lat, lng, address) ==
    [codsa |-> codsa, id |-> id, lat |-> lat, lng |-> lng, address |-> address]

\* The output columns the model follows.
StoreItem(store_id, address, latitude, longitude) ==
    [store_id |-> store_id, address |-> address, latitude |-> latitude,
     longitude |-> longitude]

\* carrefour lines 61-117, one marker: skipped (keep = FALSE) or an item.
Skipped == [keep |-> FALSE, item |-> StoreItem(NoneCell, NoneCell, NoneCell, NoneCell)]
MarkerItem(m) ==
    LET lat == Strip(OrEmpty(Get(m.lat)))
        lng == Strip(OrEmpty(Get(m.lng)))
        lat_f == PyFloat(lat)
        lng_f == PyFloat(lng)
        given_id == Strip(FirstTruthy(<<Get(m.codsa), Get(m.id)>>))
        store_id == IF given_id # <<>> THEN given_id
                    ELSE Format5f(lat_f) \o <<",">> \o Format5f(lng_f)
    IN IF lat = <<>> \/ lng = <<>> THEN Skipped
       ELSE IF lat_f.kind = "error" \/ lng_f.kind = "error" THEN Skipped
       ELSE IF ~InBounds(lat_f, lng_f) THEN Skipped
       ELSE [keep |-> TRUE,
             item |-> StoreItem(TextCell(store_id), TextCell(Strip(OrEmpty(Get(m.address)))),
                                TextCell(StrFloat(lat_f)), TextCell(StrFloat(lng_f)))]

\* The markers of the model: one identifier on two markers and as codsa or
\* as id, no identifier with coordinates that agree to five decimals,
\* coordinates out of range, on the bounds, not a number, missing.
CarrefourMarkers ==
    { Marker(TextCell(<<"7">>), AbsentCell, TextCell(<<"4", "0", ".", "4">>),
             TextCell(<<"-", "3", ".", "7">>), TextCell(<<"a", "1">>)),
      Marker(TextCell(<<"7">>), AbsentCell, TextCell(<<"4", "1", ".", "5">>),
             TextCell(<<"2", ".", "1">>), TextCell(<<"a", "2">>)),
      Marker(AbsentCell, TextCell(<<" ", "7">>), TextCell(<<"4", "0", ".", "4", "0">>),
             TextCell(<<"-", "3", ".", "7">>), AbsentCell),
      Marker(AbsentCell, AbsentCell, TextCell(<<"4", "0", ".", "1", "2", "3", "4", "5", "1">>),
             TextCell(<<"-", "3", ".", "7">>), TextCell(<<"a", "4">>)),
      Marker(AbsentCell, TextCell(<<>>), TextCell(<<"4", "0", ".", "1", "2", "3", "4", "5", "4">>),
             TextCell(<<"-", "3", ".", "7">>), TextCell(<<"a", "5">>)),
      Marker(TextCell(<<"8">>), AbsentCell, TextCell(<<"9", "5">>),
             TextCell(<<"0">>), TextCell(<<"a", "6">>)),
      Marker(TextCell(<<"8">>), AbsentCell, TextCell(<<"4", "0">>),
             TextCell(<<"-", "1", "8", "0", ".", "5">>), TextCell(<<"a", "6">>)),
      Marker(TextCell(<<"9">>), AbsentCell, TextCell(<<"9", "0">>),
             TextCell(<<"-", "1", "8", "0">>), TextCell(<<"a", "7">>)),
      Marker(TextCell(<<"8">>), AbsentCell, TextCell(<<"n", "a", "n">>),
             TextCell(<<"0">>), TextCell(<<"a", "6">>)),
      Marker(TextCell(<<"8">>), AbsentCell, TextCell(<<"1", ".", "2", ".", "3">>),
             TextCell(<<"0">>), TextCell(<<"a", "6">>)),
      Marker(TextCell(<<"8">>), AbsentCell, AbsentCell,
             TextCell(<<"0">>), TextCell(<<"a", "6">>)) }

\* A store of the Ahorramas store list (JSON): the keys the code reads
\* (horario and festivos are read as direccion is).
StoreDict(codtda, direccion, latitude, longitude) ==
    [codtda |-> codtda, direccion |-> direccion, latitude |-> latitude,
     longitude |-> longitude]
AhorramasStores ==
    { StoreDict(TextCell(<<"7">>), TextCell(<<"a", "1">>),
                TextCell(<<"4", "0", ".", "4">>), TextCell(<<"-", "3", ".", "7">>)),
      StoreDict(TextCell(<<"7">>), TextCell(<<"a", "2">>),
                TextCell(<<"4", "1", ".", "5">>), TextCell(<<"2", ".", "1">>)),
      StoreDict(TextCell(<<"8">>), TextCell(<<"a", "6">>),
                TextCell(<<"9", "5">>), TextCell(<<"0">>)),
      StoreDict(TextCell(<<"9">>), NoneCell,
                TextCell(<<"9", "0">>), TextCell(<<"-", "1", "8", "0">>)),
      StoreDict(AbsentCell, TextCell(<<"a", "3">>),
                TextCell(<<"4", "0", ".", "4">>), TextCell(<<"-", "3", ".", "7">>)) }

\* supermarket["codtda"], ...: a missing key raises KeyError.
HasKeys(supermarket) == \A key \in DOMAIN supermarket : supermarket[key].kind # "absent"
\* ahorramas lines 71-80.
StoreDictItem(supermarket) ==
    StoreItem(supermarket.codtda, supermarket.direccion, supermarket.latitude,
              supermarket.longitude)

\* The record lists handed to a function: up to MaxRecords records.
RecordLists(records) == UNION {[1..n -> records] : n \in 0..MaxRecords}

\* polars DataFrame.unique(subset, keep): one row for each value of the
\* subset columns.  keep="first" keeps the first row of each value;
\* keep="any", the default, keeps one of its rows and promises nothing about
\* which.  (The order of the result rows is not promised either; the model
\* lists them by first occurrence of the value.)
SubsetKey(row, subset) == [c \in subset |-> row[c]]
RECURSIVE SubsetKeys(_, _, _)
SubsetKeys(rows, subset, seen) ==
    IF rows = <<>> THEN <<>>
    ELSE LET key == SubsetKey(Head(rows), subset)
         IN IF key \in seen THEN SubsetKeys(Tail(rows), subset, seen)
            ELSE <<key>> \o SubsetKeys(Tail(rows), subset, seen \cup {key})
RowsOfKey(rows, subset, key) == {i \in 1..Len(rows) : SubsetKey(rows[i], subset) = key}
Minimum(S) == CHOOSE i \in S : \A j \in S : i <= j
Unique(rows, subset, keep) ==
    LET keys == SubsetKeys(rows, subset, {})
        kept == {pick \in [1..Len(keys) -> 1..Len(rows)] :
                    \A k \in 1..Len(keys) :
                       /\ pick[k] \in RowsOfKey(rows, subset, keys[k])
                       /\ keep = "first" =>
                             pick[k] = Minimum(RowsOfKey(rows, subset, keys[k]))}
    IN {[k \in 1..Len(keys) |-> rows[pick[k]]] : pick \in kept}

RecordsIdle ==
    /\ x_pc = "idle"
    /\ x_call = [fn |-> "none", input |-> <<>>, next |-> 1]
    /\ x_items = <<>>
    /\ x_df = <<>>

\* A function is called on its input.
RecordsBegin(fn, input) ==
    /\ x_pc \in {"idle", "done", "raised"}
    /\ x_call' = [fn |-> fn, input |-> input, next |-> 1]
    /\ x_items' = <<>>
    /\ x_df' = <<>>
    /\ x_pc' = "loop"

InLoop(fn) == x_pc = "loop" /\ x_call.fn = fn /\ x_call.next <= Len(x_call.input)
AfterLoop(fn) == x_pc = "loop" /\ x_call.fn = fn /\ x_call.next > Len(x_call.input)
NextRecord == x_call' = [x_call EXCEPT !.next = @ + 1]

\* carrefour extract_supermarkets, lines 49-55: the markers of the file.
CarrefourStoresCall(markers) ==
    /\ UNCHANGED nonRecordVars
    /\ RecordsBegin("carrefour_stores", markers)

\* Lines 61-117: one marker.
CarrefourMarker ==
    /\ UNCHANGED nonRecordVars
    /\ InLoop("carrefour_stores")
    /\ LET out == MarkerItem(x_call.input[x_call.next])
       IN x_items' = IF out.keep THEN Append(x_items, out.item) ELSE x_items
    /\ NextRecord
    /\ UNCHANGED <<x_pc, x_df>>

\* Lines 119-128: df.unique(subset=["store_id"]) when there are rows.
CarrefourStoresUnique ==
    /\ UNCHANGED nonRecordVars
    /\ AfterLoop("carrefour_stores")
    /\ x_df' \in IF x_items # <<>> THEN Unique(x_items, {"store_id"}, "any") ELSE {<<>>}
    /\ x_pc' = "done"
    /\ UNCHANGED <<x_call, x_items>>

\* ahorramas extract_supermarkets, lines 66-68: the stores of the API.
AhorramasStoresCall(stores) ==
    /\ UNCHANGED nonRecordVars
    /\ RecordsBegin("ahorramas_stores", stores)

\* Lines 70-80: one store; a KeyError leaves the function.
AhorramasStore ==
    /\ UNCHANGED nonRecordVars
    /\ InLoop("ahorramas_stores")
    /\ LET supermarket == x_call.input[x_call.next]
       IN IF HasKeys(supermarket)
          THEN /\ x_items' = Append(x_items, StoreDictItem(supermarket))
               /\ NextRecord
               /\ UNCHANGED x_pc
          ELSE /\ x_pc' = "raised"
               /\ UNCHANGED <<x_call, x_items>>
    /\ UNCHANGED x_df

\* Line 82: return pl.DataFrame(items).
AhorramasStoresReturn ==
    /\ UNCHANGED nonRecordVars
    /\ AfterLoop("ahorramas_stores")
    /\ x_df' = x_items
    /\ x_pc' = "done"
    /\ UNCHANGED <<x_call, x_items>>

\* str.capitalize(), str.replace("-", " ") for the letters of the model.
Upper(c) == CASE c = "m" -> "M" [] c = "r" -> "R" [] c = "n" -> "N" [] OTHER -> c
Lower(c) == CASE c = "M" -> "m" [] c = "R" -> "r" [] c = "N" -> "n" [] OTHER -> c
Capitalize(text) ==
    [i \in 1..Len(text) |-> IF i = 1 THEN Upper(text[i]) ELSE Lower(text[i])]
ReplaceHyphens(text) == [i \in 1..Len(text) |-> IF text[i] = "-" THEN " " ELSE text[i]]

\* str(x) of a JSON value: the text itself, "None" for a null.
StrOf(cell) == IF cell.kind = "none" THEN <<"N", "o", "n", "e">> ELSE cell.v
\* product.get(key, default)
GetOr(cell, default) == IF cell.kind = "absent" THEN default ELSE cell

\* An entry of the "impressions" array: a JSON object with the keys the
\* code reads (item_variant is read as coupon is), or a value that is no
\* object.
Impression(item_name, price, coupon) ==
    [object |-> TRUE, item_name |-> item_name, price |-> price, coupon |-> coupon]
NoObject ==
    [object |-> FALSE, item_name |-> AbsentCell, price |-> AbsentCell, coupon |-> AbsentCell]
\* A product-card__title link: its text and the slug and href of its <a>.
TitleLink(slug, text) == [slug |-> slug, text |-> text]
\* An HTML file: its impressions array (none, not JSON, or entries), its
\* title links, its name.
HtmlFile(impressions, entries, links, name) ==
    [impressions |-> impressions, entries |-> entries, links |-> links, name |-> name]

Milk == <<"m", "i", "l", "k">>
Rice == <<"r", "i", "c", "e">>
HtmlFiles ==
    { HtmlFile("array", << Impression(TextCell(Milk), TextCell(<<"1", ".", "5">>), TextCell(<<"c">>)),
                           Impression(TextCell(Rice), TextCell(<<"2">>), AbsentCell) >>,
               <<>>, "f1"),
      HtmlFile("array", << Impression(TextCell(Milk), TextCell(<<"1", ".", "9">>), NoneCell) >>,
               <<>>, "f2"),
      HtmlFile("array", << Impression(TextCell(Rice), TextCell(<<"2">>), AbsentCell),
                           Impression(TextCell(Milk), TextCell(<<"a", "b", "c">>), AbsentCell) >>,
               <<>>, "f3"),
      HtmlFile("array", << Impression(TextCell(Milk), AbsentCell, AbsentCell),
                           Impression(TextCell(Milk), TextCell(<<"3">>), AbsentCell),
                           Impression(AbsentCell, TextCell(<<"3">>), AbsentCell) >>,
               << TitleLink(Milk, <<"L", "e", "c", "h", "e">>), TitleLink(Milk, Milk) >>, "f4"),
      HtmlFile("array", << Impression(TextCell(Rice), NoneCell, AbsentCell), NoObject >>,
               <<>>, "f5"),
      HtmlFile("none", <<>>, <<>>, "f6"),
      HtmlFile("not_json", <<>>, <<>>, "f7") }

\* Lines 246-269: slug -> name of the first title link with that slug.
RECURSIVE ProductMap(_)
ProductMap(links) ==
    IF links = <<>> THEN <<>>
    ELSE LET rest == ProductMap(SubSeq(links, 1, Len(links) - 1))
             last == links[Len(links)]
         IN IF last.text # <<>> /\ last.slug # <<>> /\ last.slug \notin DOMAIN rest
            THEN [s \in DOMAIN rest \cup {last.slug} |->
                     IF s = last.slug THEN last.text ELSE rest[s]]
            ELSE rest

ProductItem(discount_value, price, name, source_file) ==
    [discount_value |-> discount_value, price |-> price, name |-> name,
     supermarket |-> TextCell(<<"c", "a", "r", "r", "e", "f", "o", "u", "r">>),
     source_file |-> source_file]

\* Lines 273-297, one entry: the product, or the exception it raises
\* (AttributeError for a value without .get, TypeError for float(None),
\* ValueError for a text that is no number).
EntryRaises(product) ==
    \/ ~product.object
    \/ LET price == GetOr(product.price, TextCell(<<"0", ".", "0">>))
       IN price.kind = "none" \/ PyFloat(price.v).kind = "error"
CleanProduct(product, product_map, filename) ==
    LET json_slug == Strip(StrOf(GetOr(product.item_name, TextCell(<<>>))))
        mapped == IF json_slug \in DOMAIN product_map THEN product_map[json_slug] ELSE <<>>
        human_name == IF mapped = <<>> /\ json_slug # <<>>
                      THEN Capitalize(Strip(ReplaceHyphens(json_slug)))
                      ELSE mapped
    IN ProductItem(TextCell(StrOf(GetOr(product.coupon, TextCell(<<>>)))),
                   PyFloat(GetOr(product.price, TextCell(<<"0", ".", "0">>)).v),
                   TextCell(human_name), filename)

\* extract_products_from_single_html, lines 220-306: the products of the
\* file; none when the array is not there, is no JSON, or an entry raises.
ExtractProductsFromSingleHtml(file) ==
    IF file.impressions # "array" THEN <<>>
    ELSE IF \E i \in 1..Len(file.entries) : EntryRaises(file.entries[i]) THEN <<>>
    ELSE [i \in 1..Len(file.entries) |->
             CleanProduct(file.entries[i], ProductMap(file.links), file.name)]

\* extract_products_from_html_files, lines 180-183: the files of the
\* directory, in the order glob lists them.
HtmlFilesCall(html_files) ==
    /\ UNCHANGED nonRecordVars
    /\ RecordsBegin("carrefour_products", html_files)

\* Lines 185-195: one file.
HtmlFileStep ==
    /\ UNCHANGED nonRecordVars
    /\ InLoop("carrefour_products")
    /\ x_items' = x_items \o ExtractProductsFromSingleHtml(x_call.input[x_call.next])
    /\ NextRecord
    /\ UNCHANGED <<x_pc, x_df>>

\* Lines 197-208: an empty frame, or df.unique(subset=["name",
\* "supermarket"], keep="first").
HtmlFilesUnique ==
    /\ UNCHANGED nonRecordVars
    /\ AfterLoop("carrefour_products")
    /\ x_df' \in IF x_items # <<>> THEN Unique(x_items, {"name", "supermarket"}, "first")
                ELSE {<<>>}
    /\ x_pc' = "done"
    /\ UNCHANGED <<x_call, x_items>>

\* A div.product tile of a grid chunk: whether it has a .tile-body, the
\* elements the selectors find (a text, or no element), its img.tile-image
\* (none, or its src attribute if it has one), the href of its first
\* a[href] (none when it has no such anchor).
Tile(tile_body, discount, price, unit, name, img, src, href) ==
    [tile_body |-> tile_body, discount |-> discount, price |-> price, unit |-> unit,
     name |-> name, img |-> img, src |-> src, href |-> href]
ProductTiles ==
    { Tile(TRUE, TextCell(<<"-", "2", "0", "%">>), TextCell(<<" ", "1", ",", "5", " ">>),
           TextCell(<<"3", "/", "k", "g">>), TextCell(Milk), TRUE,
           TextCell(<<"i", ".", "p", "n", "g">>), TextCell(<<"/", "p">>)),
      Tile(TRUE, AbsentCell, TextCell(<<"2">>), AbsentCell, TextCell(Rice), FALSE,
           AbsentCell, TextCell(<<>>)),
      Tile(FALSE, TextCell(<<"-", "2", "0", "%">>), TextCell(<<"2">>), AbsentCell,
           AbsentCell, FALSE, AbsentCell, AbsentCell),
      Tile(TRUE, AbsentCell, TextCell(<<"2">>), AbsentCell, TextCell(Rice), TRUE,
           AbsentCell, TextCell(<<"/", "p">>)) }

\* Line 305: el.get_text(strip=True) if el else ""
TextOrEmpty(el) == IF el.kind = "str" THEN TextCell(Strip(el.v)) ELSE TextCell(<<>>)
\* tile_body.select_one(...) if tile_body else None
InBody(tile, el) == IF tile.tile_body THEN el ELSE AbsentCell
\* urljoin("https://www.ahorramas.com", href) for a path.
UrlJoin(href) == <<"https://www.ahorramas.com">> \o href

\* Lines 336-380: the record of one tile.
TileItem(prod) ==
    [discount_value |-> TextOrEmpty(InBody(prod, prod.discount)),
     price |-> TextOrEmpty(InBody(prod, prod.price)),
     price_per_unit |-> TextOrEmpty(InBody(prod, prod.unit)),
     name |-> TextOrEmpty(prod.name),
     image |-> IF prod.img THEN Get(prod.src) ELSE TextCell(<<>>),
     url |-> LET href == IF prod.href.kind = "str" THEN prod.href.v ELSE <<>>
             IN IF href # <<>> THEN TextCell(UrlJoin(href)) ELSE TextCell(<<>>)]

\* extract_products, line 336: the tiles soup.select("div.product") finds
\* in a chunk.
ProductTilesCall(tiles) ==
    /\ UNCHANGED nonRecordVars
    /\ RecordsBegin("ahorramas_products", tiles)

\* Lines 336-380: one tile.
ProductTile ==
    /\ UNCHANGED nonRecordVars
    /\ InLoop("ahorramas_products")
    /\ x_items' = Append(x_items, TileItem(x_call.input[x_call.next]))
    /\ NextRecord
    /\ UNCHANGED <<x_pc, x_df>>

\* Lines 391-393: df = pl.DataFrame(items).
ProductTilesReturn ==
    /\ UNCHANGED nonRecordVars
    /\ AfterLoop("ahorramas_products")
    /\ x_df' = x_items
    /\ x_pc' = "done"
    /\ UNCHANGED <<x_call, x_items>>

(***************************************************************************)
(* utils/postgres.py: execute_query on the connection pool.  A connection  *)
(* of psycopg2 opens a transaction at its first statement; putconn of the  *)
(* pool rolls back a connection it is handed inside a transaction.         *)
(***************************************************************************)
\* The statements of the model: a SELECT; an INSERT of a row, without and
\* with RETURNING.
Rows == {"r1", "r2"}
Select == [kind |-> "select", row |-> "r1"]
Insert(row) == [kind |-> "insert", row |-> row]
InsertReturning(row) == [kind |-> "insert_returning", row |-> row]
Statements == {Select} \cup {Insert(r) : r \in Rows} \cup {InsertReturning(r) : r \in Rows}

\* What the statement writes, and whether it describes a result
\* (cursor.description).
Writes(query) == IF query.kind = "select" THEN {} ELSE {query.row}
HasDescription(query) == query.kind \in {"select", "insert_returning"}

NoQuery ==
    [query |-> Select, fetch |-> TRUE, conn |-> FALSE, txn |-> "none", pending |-> {},
     err |-> "none", before |-> 0, at_call |-> {}, result |-> {}, put |-> "none"]

QueryIdle ==
    /\ pool = [out |-> 0]
    /\ q_pc = "idle"
    /\ q_call = NoQuery
    /\ committed = {}

\* test_connection (lines 113-128): the connection goes back to the pool
\* only when the statement succeeded.
TestConnection ==
    /\ UNCHANGED nonQueryVars
    /\ q_pc \in {"idle", "returned", "raised"}
    /\ pool.out < MaxConn
    /\ \E ok \in BOOLEAN : pool' = IF ok THEN pool ELSE [out |-> pool.out + 1]
    /\ UNCHANGED <<q_pc, q_call, committed>>

\* close_pool (lines 218-225), at the end of a command: every connection
\* is closed and the pool is forgotten.
ClosePool ==
    /\ UNCHANGED nonQueryVars
    /\ q_pc \in {"idle", "returned", "raised"}
    /\ pool.out > 0
    /\ pool' = [out |-> 0]
    /\ UNCHANGED <<q_pc, q_call, committed>>

\* execute_query(query, params, fetch), line 88: conn = None.
ExecuteQuery(query, fetch) ==
    /\ UNCHANGED nonQueryVars
    /\ q_pc \in {"idle", "returned", "raised"}
    /\ q_call' = [NoQuery EXCEPT !.query = query, !.fetch = fetch,
                                 !.before = pool.out, !.at_call = committed]
    /\ q_pc' = "getconn"
    /\ UNCHANGED <<pool, committed>>

\* Line 90: pool.getconn(), a PoolError when every connection is out.
GetConn ==
    /\ UNCHANGED nonQueryVars
    /\ q_pc = "getconn"
    /\ IF pool.out < MaxConn
       THEN /\ pool' = [out |-> pool.out + 1]
            /\ q_call' = [q_call EXCEPT !.conn = TRUE, !.txn = "idle"]
            /\ q_pc' = "execute"
       ELSE /\ q_call' = [q_call EXCEPT !.err = "pool_error"]
            /\ q_pc' = "except"
            /\ UNCHANGED pool
    /\ UNCHANGED committed

\* Lines 91-92: the statement runs in the transaction of the connection.
CursorExecute ==
    /\ UNCHANGED nonQueryVars
    /\ q_pc = "execute"
    /\ q_call' = [q_call EXCEPT !.txn = "open", !.pending = Writes(q_call.query)]
    /\ q_pc' = IF q_call.fetch THEN "fetch" ELSE "commit"
    /\ UNCHANGED <<pool, committed>>

\* Line 92 raises: the transaction is aborted.
CursorExecuteRaises ==
    /\ UNCHANGED nonQueryVars
    /\ q_pc = "execute"
    /\ q_call' = [q_call EXCEPT !.txn = "failed", !.err = "statement"]
    /\ q_pc' = "except"
    /\ UNCHANGED <<pool, committed>>

\* Lines 94-99: the rows when the statement describes a result, else None.
Fetch ==
    /\ UNCHANGED nonQueryVars
    /\ q_pc = "fetch"
    /\ q_call' = [q_call EXCEPT
                  !.result = IF HasDescription(q_call.query) THEN {q_call.query.row} ELSE {}]
    /\ q_pc' = "finally"
    /\ UNCHANGED <<pool, committed>>

\* Lines 100-102: conn.commit().
Commit ==
    /\ UNCHANGED nonQueryVars
    /\ q_pc = "commit"
    /\ committed' = committed \cup q_call.pending
    /\ q_call' = [q_call EXCEPT !.txn = "idle", !.pending = {}]
    /\ q_pc' = "finally"
    /\ UNCHANGED pool

\* Lines 104-107: if conn: conn.rollback(); raise e.
Rollback(call) == IF call.conn THEN [call EXCEPT !.txn = "idle", !.pending = {}] ELSE call
Except ==
    /\ UNCHANGED nonQueryVars
    /\ q_pc = "except"
    /\ q_call' = Rollback(q_call)
    /\ q_pc' = "finally"
    /\ UNCHANGED <<pool, committed>>

\* A faulty variant: the connection goes back only when the call returns.
ReturnsConnectionOnSuccess(call) == call.conn /\ call.err = "none"

\* Lines 108-110: if conn: return_postgres_connection(conn).
ReturnsConnection(call) == call.conn

\* putconn: the state the connection is handed back in is noted; a
\* transaction left open is rolled back by the pool.
Finally ==
    /\ UNCHANGED nonQueryVars
    /\ q_pc = "finally"
    /\ IF ReturnsConnection(q_call)
       THEN /\ pool' = [out |-> pool.out - 1]
            /\ q_call' = [q_call EXCEPT !.put = q_call.txn, !.txn = "idle", !.pending = {}]
       ELSE UNCHANGED <<pool, q_call>>
    /\ q_pc' = IF q_call.err = "none" THEN "returned" ELSE "raised"
    /\ UNCHANGED committed

(***************************************************************************)
(* ahorramas/extract.py: fetch_supermarkets.  The call asks the store API  *)
(* inside a loop of `retries` iterations; retries, timeout and delay are   *)
(* locals of the function.                                                 *)
(***************************************************************************)
StoreRetries == 5
StoreDelay == 5

\* time.sleep(delay), lines 43 and 47: the time slept after attempt a failed.
StoreSleep(delay, a) == delay

StoreFetchIdle ==
    /\ s_pc = "idle"
    /\ s_attempt = 0
    /\ s_outcomes = <<>>
    /\ s_sleeps = <<>>
    /\ s_result = NoResult

\* Lines 22-31: url, params, the session, the locals.
FetchSupermarkets ==
    /\ UNCHANGED nonStoreVars
    /\ s_pc # "loop"
    /\ s_pc' = "loop"
    /\ s_attempt' = 0
    /\ s_outcomes' = <<>>
    /\ s_sleeps' = <<>>
    /\ s_result' = NoResult

\* Lines 35-39: the request is answered and the body is JSON.
GetOk ==
    /\ UNCHANGED nonStoreVars
    /\ s_pc = "loop"
    /\ LoopRuns(s_attempt, StoreRetries)
    /\ s_outcomes' = Append(s_outcomes, "ok")
    /\ s_result' = [kind |-> "json", val |-> "stores"]
    /\ s_pc' = "returned"
    /\ UNCHANGED <<s_attempt, s_sleeps>>

\* One failed iteration: the handler sleeps and the loop goes on.
Retried(why) ==
    /\ s_outcomes' = Append(s_outcomes, why)
    /\ s_sleeps' = Append(s_sleeps, Slept(s_attempt, why, StoreSleep(StoreDelay, s_attempt)))
    /\ s_attempt' = s_attempt + 1
    /\ UNCHANGED <<s_pc, s_result>>

\* Lines 41-43: requests.Timeout.
GetTimeout ==
    /\ UNCHANGED nonStoreVars
    /\ s_pc = "loop"
    /\ LoopRuns(s_attempt, StoreRetries)
    /\ Retried("timeout")

\* Lines 45-47: any other requests.RequestException (connection failure).
GetRequestError ==
    /\ UNCHANGED nonStoreVars
    /\ s_pc = "loop"
    /\ LoopRuns(s_attempt, StoreRetries)
    /\ Retried("transport")

\* Line 39: response.json() raises on a body that is no JSON.  The error is
\* a requests.RequestException in the releases of requests that define
\* requests.exceptions.JSONDecodeError, and handled as one; in the others it
\* is a ValueError, which no handler takes and which leaves the function.
GetNoJson ==
    /\ UNCHANGED nonStoreVars
    /\ s_pc = "loop"
    /\ LoopRuns(s_attempt, StoreRetries)
    /\ \/ Retried("no_json")
       \/ /\ s_outcomes' = Append(s_outcomes, "no_json")
          /\ s_result' = [kind |-> "ValueError", val |-> "no json"]
          /\ s_pc' = "raised"
          /\ UNCHANGED <<s_attempt, s_sleeps>>

\* Lines 49-52: the loop is over.
StoreFetchExhausted ==
    /\ UNCHANGED nonStoreVars
    /\ s_pc = "loop"
    /\ ~LoopRuns(s_attempt, StoreRetries)
    /\ s_result' = RuntimeError("Failed to fetch supermarkets from Ahorramas API")
    /\ s_pc' = "raised"
    /\ UNCHANGED <<s_attempt, s_outcomes, s_sleeps>>

(***************************************************************************)
(* Specifications.                                                         *)
(***************************************************************************)
vars == <<keyVars, fetchVars, runVars, sizeVars, extractVars, rawVars, warehouseVars,
               recordVars, queryVars, storeVars>>

\* The key component at rest (the other specifications leave it there).
KeyIdle ==
    /\ k_pc = "drawn"
    /\ k_url = "https://h/p"
    /\ k_p1 = NoneParams
    /\ k_p2 = NoneParams
    /\ k_full1 = <<>>
    /\ k_full2 = <<>>
    /\ k_key1 = <<>>
    /\ k_key2 = <<>>

InitKey == KeyInit /\ FetchInit /\ RunsInit /\ SizeIdle /\ ExtractInit /\ RawInit /\ WarehouseIdle
    /\ RecordsIdle /\ QueryIdle /\ StoreFetchIdle
NextKey == Canonicalize
SpecKey == InitKey /\ [][NextKey]_vars

InitFetch == KeyIdle /\ FetchInit /\ RunsInit /\ SizeIdle /\ ExtractInit /\ RawInit /\ WarehouseIdle
    /\ RecordsIdle /\ QueryIdle /\ StoreFetchIdle
NextFetch ==
    \/ \E u \in FetchUrls, p \in FetchParams, r \in RetryChoices, d \in DelayChoices :
          FetchCall(u, p, r, d)
    \/ \E body \in Bodies : AttemptOk(body)
    \/ AttemptTimeout
    \/ AttemptRequestError
    \/ \E stage \in UnexpectedStages : AttemptUnexpected(stage)
    \/ Exhausted
SpecFetch == InitFetch /\ [][NextFetch]_vars

InitRuns == KeyIdle /\ FetchInit /\ RunsInit /\ SizeIdle /\ ExtractInit /\ RawInit /\ WarehouseIdle
    /\ RecordsIdle /\ QueryIdle /\ StoreFetchIdle
NextRuns ==
    \/ \E r \in RunIds, u \in FetchUrls, p \in RunParams, n \in RetryChoices :
          RunCall(r, u, p, n)
    \/ \E r \in RunIds, body \in Bodies : RunAttemptOk(r, body)
    \/ \E r \in RunIds : RunAttemptFails(r)
    \/ \E r \in RunIds : RunRaises(r)
SpecRuns == InitRuns /\ [][NextRuns]_vars

InitSize == KeyIdle /\ FetchInit /\ RunsInit /\ SizeInit /\ ExtractInit /\ RawInit /\ WarehouseIdle
    /\ RecordsIdle /\ QueryIdle /\ StoreFetchIdle
NextSize == GetCategoryTotalSize
SpecSize == InitSize /\ [][NextSize]_vars

InitExtract == KeyIdle /\ FetchInit /\ RunsInit /\ SizeIdle /\ ExtractInit /\ RawInit /\ WarehouseIdle
    /\ RecordsIdle /\ QueryIdle /\ StoreFetchIdle
NextExtract ==
    \/ \E total \in TotalSizes : ExtractStart(total)
    \/ \E n \in TileCounts : FetchChunk(n)
    \/ FetchChunkRaises
SpecExtract == InitExtract /\ [][NextExtract]_vars

\* extract_products is sequential code: once in the loop it goes on to the
\* next fetch, and every fetch returns or raises.
SpecExtractFair ==
    /\ SpecExtract
    /\ WF_vars((\E n \in TileCounts : FetchChunk(n)) \/ FetchChunkRaises)

\* The functions of the load module, called one at a time (transform-staging,
\* deploy-prod and the raw loaders).
InitWarehouse ==
    KeyIdle /\ FetchInit /\ RunsInit /\ SizeIdle /\ ExtractInit /\ RawInit /\ WarehouseInit
    /\ RecordsIdle /\ QueryIdle /\ StoreFetchIdle
NextWarehouse ==
    \/ Midnight
    \/ \E data \in StoreFrames \cup ProductFrames : CallRaw(data)
    \/ CallStaging
    \/ CallProd
    \/ RawStage
    \/ RawStageRaises
    \/ StagingPartition
    \/ StagingDelete
    \/ StagingInsert
    \/ ProdLatest
    \/ ProdPartition
    \/ ProdUpsert
    \/ StatementFails
    \/ OtherSourceStaging
SpecWarehouse == InitWarehouse /\ [][NextWarehouse]_vars

\* The run-pipeline commands: the same stages, composed by the command.
InitPipeline ==
    KeyIdle /\ FetchInit /\ RunsInit /\ SizeIdle /\ ExtractInit /\ RawInit /\ WarehouseInit
    /\ RecordsIdle /\ QueryIdle /\ StoreFetchIdle
NextPipeline ==
    \/ Midnight
    \/ \E data \in StoreFrames \cup ProductFrames : PipelineBegin(data)
    \/ RawStage
    \/ RawStageRaises
    \/ PipelineSchemas
    \/ StagingPartition
    \/ StagingDelete
    \/ StagingInsert
    \/ ProdLatest
    \/ ProdPartition
    \/ ProdUpsert
    \/ StatementFails
    \/ OtherSourceStaging
SpecPipeline == InitPipeline /\ [][NextPipeline]_vars

Idle ==
    KeyIdle /\ FetchInit /\ RunsInit /\ SizeIdle /\ ExtractInit /\ RawInit /\ WarehouseIdle
    /\ RecordsIdle /\ QueryIdle /\ StoreFetchIdle

NextRecords ==
    \/ \E markers \in RecordLists(CarrefourMarkers) : CarrefourStoresCall(markers)
    \/ CarrefourMarker \/ CarrefourStoresUnique
    \/ \E stores \in RecordLists(AhorramasStores) : AhorramasStoresCall(stores)
    \/ AhorramasStore \/ AhorramasStoresReturn
    \/ \E html_files \in RecordLists(HtmlFiles) : HtmlFilesCall(html_files)
    \/ HtmlFileStep \/ HtmlFilesUnique
    \/ \E tiles \in RecordLists(ProductTiles) : ProductTilesCall(tiles)
    \/ ProductTile \/ ProductTilesReturn
SpecRecords == Idle /\ [][NextRecords]_vars

NextQuery ==
    \/ TestConnection \/ ClosePool
    \/ \E query \in Statements, fetch \in BOOLEAN : ExecuteQuery(query, fetch)
    \/ GetConn \/ CursorExecute \/ CursorExecuteRaises \/ Fetch \/ Commit \/ Except \/ Finally
SpecQuery == Idle /\ [][NextQuery]_vars

NextStoreFetch ==
    \/ FetchSupermarkets
    \/ GetOk
    \/ GetTimeout
    \/ GetRequestError
    \/ GetNoJson
    \/ StoreFetchExhausted
SpecStoreFetch == Idle /\ [][NextStoreFetch]_vars

InitRaw == KeyIdle /\ FetchInit /\ RunsInit /\ SizeIdle /\ ExtractInit /\ RawInit /\ WarehouseIdle
    /\ RecordsIdle /\ QueryIdle /\ StoreFetchIdle
NextRaw ==
    \/ Midnight
    \/ \E loader \in Loaders, data \in DataFrames : RawBegin(loader, data)
    \/ RawDrop
    \/ RawCreate
    \/ RawInsert
    \/ RawFail
SpecRaw == InitRaw /\ [][NextRaw]_vars

(***************************************************************************)
(* Properties of the cache key (SpecKey).                                  *)
(***************************************************************************)
ItemSet(p) == {p.items[i] : i \in 1..Len(p.items)}

\* C10: two params mappings holding the same key/value pairs, in whatever key
\* order, give the same canonical URL and the same cache key for the same url;
\* the empty mapping and the absent one both give the bare url.
C10_KeyOrderIndependent ==
    k_pc = "built" =>
       /\ (k_p1.given /\ k_p2.given /\ ItemSet(k_p1) = ItemSet(k_p2))
             => (k_full1 = k_full2 /\ k_key1 = k_key2)
       /\ (~k_p1.given \/ Len(k_p1.items) = 0) => k_full1 = <<k_url>>

C10_Witness ==
    /\ k_pc = "built"
    /\ k_p1.items = << <<"a", 1>>, <<"b", 2>> >>
    /\ k_p2.items = << <<"b", 2>>, <<"a", 1>> >>
    /\ k_full1 = <<k_url, "?", "a", "=", "1", "&", "b", "=", "2">>
    /\ k_key1 = k_key2

(***************************************************************************)
(* Properties of fetch_html_content (SpecFetch).                           *)
(***************************************************************************)
FetchCalled == f_pc # "idle"
FetchOver == f_pc \in {"returned", "raised"}

RECURSIVE SumSecs(_)
SumSecs(log) == IF log = <<>> THEN 0 ELSE Head(log).secs + SumSecs(Tail(log))

\* The backoff sleeps that follow the failure of attempt number a (0-based).
BackoffSleeps(a) ==
    SelectSeq(sleeps, LAMBDA e : e.attempt = a /\ e.why # "courtesy")

AllFailed ==
    \A i \in 1..Len(outcomes) : outcomes[i] \in {"timeout", "transport"}

\* C2: whenever the key of (url, params) exists in the store when the call
\* starts, the call returns the stored content and issues no network request.
C2_HitOnEveryExistingKey ==
    (FetchCalled /\ Exists(cacheAtCall, redis_key)) =>
       /\ f_pc = "returned"
       /\ outcomes = <<>>
       /\ result = Returned(Utf8Decode(cacheAtCall[redis_key].html))

\* C3: once a call with some (url, params) has returned, every later call with
\* the same (url, params) returns that same content without a network request.
C3_RepeatedCallSameContent ==
    (FetchCalled /\ Request \in DOMAIN firstAtCall) =>
       /\ f_pc = "returned"
       /\ outcomes = <<>>
       /\ result = Returned(firstAtCall[Request])

\* C4: on a cache miss where every network attempt fails with a timeout or a
\* transport error, the call makes exactly `retries` attempts and then raises
\* RuntimeError; it returns no content and leaves the cache as it was.
C4_ExhaustionRaises ==
    (FetchCalled /\ ~Exists(cacheAtCall, redis_key) /\ AllFailed) =>
       /\ cache = cacheAtCall
       /\ result.kind # "content"
       /\ Len(outcomes) <= f_args.retries
       /\ FetchOver =>
             /\ f_pc = "raised"
             /\ result.kind = "RuntimeError"
             /\ Len(outcomes) = f_args.retries

C4_Witness ==
    /\ f_pc = "raised"
    /\ ~Exists(cacheAtCall, redis_key)
    /\ outcomes = <<"timeout", "transport">>
    /\ f_args.retries = 2

\* C5: after attempt number a (0-based) fails with a timeout, the time slept
\* before the next attempt (or the terminal error) is delay * (a + 1).
C5_TimeoutBackoff ==
    \A i \in 1..Len(outcomes) :
       outcomes[i] = "timeout" => SumSecs(BackoffSleeps(i - 1)) = f_args.delay * i

\* C6: after attempt number a (0-based) fails with a transport error that is no
\* timeout, the time slept before the next attempt (or the terminal error) is
\* delay * (a + 1).
C6_TransportBackoff ==
    \A i \in 1..Len(outcomes) :
       outcomes[i] = "transport" => SumSecs(BackoffSleeps(i - 1)) = f_args.delay * i

C6_Witness ==
    /\ Len(outcomes) = 2
    /\ outcomes[2] = "transport"
    /\ f_args.delay = 1
    /\ SumSecs(BackoffSleeps(1)) = 2

\* C7: an attempt that raises an error which is neither a timeout nor a
\* transport error ends the call with RuntimeError at once: it is the last
\* attempt and no backoff sleep follows it, whatever retry budget remains.
C7_UnexpectedAbortsAtOnce ==
    \A i \in 1..Len(outcomes) :
       outcomes[i] = "unexpected" =>
          /\ i = Len(outcomes)
          /\ f_pc = "raised"
          /\ result.kind = "RuntimeError"
          /\ BackoffSleeps(i - 1) = <<>>

C7_Witness ==
    /\ f_pc = "raised"
    /\ outcomes = <<"unexpected">>
    /\ f_args.retries = 2
    /\ f_args.delay = 1

\* C36: a fetch_html_content call that has raised (its retries exhausted,
\* or an unexpected error) has left the store as it was when the call
\* began: no key created, no key changed; the key of the request holds what
\* it held, so a later call finds no content the failed call put there.
C36_FailedFetchLeavesCache ==
    f_pc = "raised" =>
       /\ cache = cacheAtCall
       /\ ~CacheHit(cache, redis_key)

\* A call has raised after a failed attempt while the store held the page of
\* an earlier call.
C36_Witness ==
    /\ f_pc = "raised"
    /\ Len(outcomes) >= 1
    /\ cacheAtCall # <<>>
    /\ ~Exists(cacheAtCall, redis_key)

(***************************************************************************)
(* Properties of concurrent fetch_html_content calls (SpecRuns).           *)
(***************************************************************************)
\* C11: once a key holds content, no step of any run changes the content
\* stored under it (so two runs that both missed the key and both write it
\* leave the content of the first writer, which is also that of the second).
C11_ContentImmutable ==
    [][\A key \in DOMAIN cache :
          CacheHit(cache, key) =>
             /\ key \in DOMAIN cache'
             /\ cache'[key].html = cache[key].html]_vars

(***************************************************************************)
(* Properties of get_category_total_size (SpecSize).                       *)
(***************************************************************************)
\* A count written with thousands separators: a first group of one to three
\* digits, then groups of a separator ('.' or ' ') and three digits.
RECURSIVE Grouped(_)
Grouped(txt) ==
    \/ txt = <<>>
    \/ /\ Len(txt) >= 4
       /\ txt[1] \in {".", " "}
       /\ \A i \in 2..4 : IsDigit(txt[i])
       /\ Grouped(SubSeq(txt, 5, Len(txt)))

IsCount(txt) ==
    \E n \in 1..3 :
        /\ Len(txt) >= n
        /\ \A i \in 1..n : IsDigit(txt[i])
        /\ Grouped(SubSeq(txt, n + 1, Len(txt)))

HasNoDigit(txt) == \A i \in 1..Len(txt) : ~IsDigit(txt[i])

\* C12: "<number> Resultados", the number written with '.' or ' ' between its
\* groups of thousands, gives the integer the number denotes; no counter
\* element, or a counter without any digit, gives 0.
C12_TotalSizeParsed ==
    t_pc = "parsed" =>
       /\ LET txt == counter_el.text
              n == SubSeq(txt, 1, Len(txt) - 2)
          IN counter_el.present /\ Len(txt) >= 3 /\ IsCount(n)
                /\ txt = n \o <<" ", "Resultados">>
                => t_size = ToInt(StripNonDigits(n))
       /\ (~counter_el.present \/ HasNoDigit(counter_el.text)) => t_size = 0

(***************************************************************************)
(* Properties of extract_products (SpecExtract).                           *)
(***************************************************************************)
EveryChunkYields == \A i \in 1..Len(chunks) : chunks[i].n >= 1

\* ceil(total / 100)
ChunksNeeded(total) == (total + 99) \div 100

\* The records of the first k chunks of the log, in chunk order.
RECURSIVE RecordsOfChunks(_)
RecordsOfChunks(k) ==
    IF k = 0 THEN <<>>
    ELSE RecordsOfChunks(k - 1) \o
         [i \in 1..chunks[k].n |-> [name |-> chunks[k].start + i]]

C9_EarlyExit ==
    \A i \in 1..Len(chunks) :
       chunks[i].n = 0 =>
          /\ i = Len(chunks)
          /\ e_pc = "done"
          /\ e_result = RecordsOfChunks(i - 1)

C9_Witness ==
    /\ e_pc = "done"
    /\ total_size = 250
    /\ Len(chunks) = 2
    /\ chunks[1].n = 2
    /\ chunks[2].n = 0
    /\ remaining > 0
    /\ e_result = <<[name |-> 1], [name |-> 2]>>

\* A chunk request of the log that the loop issued (its fetch returned or
\* raised).
ChunkRequests == 1..Len(chunks)

C35_ExtractTerminates ==
    /\ [](Len(chunks) <= ChunksNeeded(total_size))
    /\ [][(e_pc = "loop" /\ Len(chunks') > Len(chunks) /\ e_pc' # "raised")
             => remaining' < remaining]_vars
    /\ (e_pc = "loop" ~> e_pc \in {"done", "raised"})

\* A call for a total of 201 has returned after ceil(201 / 100) = 3 fetches.
C35_Witness ==
    /\ e_pc = "done"
    /\ total_size = 201
    /\ Len(chunks) = 3
    /\ remaining = 0

(***************************************************************************)
(* Properties of raw ingestion (SpecRaw).                                  *)
(***************************************************************************)
Occurrences(rows, r) == Cardinality({i \in 1..Len(rows) : rows[i] = r})

SameRowMultiset(a, b) ==
    /\ Len(a) = Len(b)
    /\ \A i \in 1..Len(a) : Occurrences(a, a[i]) = Occurrences(b, a[i])

\* What a single load of `data` into an absent table leaves.
SingleRunRows(data) == [i \in 1..Len(data) |-> TextRow(data[i])]

\* C1: for each of the three raw loads, a load that completes right after a
\* completed load of the same records into the same date's table leaves the
\* table with the row multiset of a single load.
C1_RawReloadReplaces ==
    (r_pc = "done" /\ r_job.repeat) =>
       /\ r_job.table \in DOMAIN tables
       /\ SameRowMultiset(tables[r_job.table], SingleRunRows(r_job.data))

\* C21: once a raw load has ended, by returning or by raising at any of its
\* statements, the table of its (source, entity kind, date) is absent, or
\* holds exactly the records of the load that just completed, or still holds
\* what it held before the failed load began: never a part of the records
\* and never a record twice.
C21_RawNeverPartial ==
    r_pc \in {"done", "failed"} =>
       \/ r_job.table \notin DOMAIN tables
       \/ /\ r_pc = "done"
          /\ SameRowMultiset(tables[r_job.table], SingleRunRows(r_job.data))
       \/ /\ r_pc = "failed"
          /\ r_job.before # <<>>
          /\ tables[r_job.table] = r_job.before[1]

\* C22: when extract-raw has written the raw table of a source and entity
\* kind on the current date, the name transform-staging hands to the staging
\* loader on that date is the name of that table; and for every entity kind
\* and date the staging partition named from the raw table name and the
\* production partition named from the staged date have the same name.
C22_StagesShareNames ==
    /\ (r_pc = "done" /\ r_job.table[3] = DateText(today)) =>
          TransformStagingName(r_job.loader, today) = Tail(r_job.table)
    /\ \A kind \in {"stores", "products"}, day \in 1..MaxDay :
          LET raw_table_name == RawName(kind, day)
              extracted_date == DateValue(Replace(raw_table_name, RawPrefix(kind)))
          IN ProdPartitionName(kind, extracted_date)
                = StagingPartitionName(kind, raw_table_name)

(***************************************************************************)
(* Properties of the warehouse (SpecWarehouse, SpecPipeline).              *)
(***************************************************************************)
\* The statement of the running (or last) call has completed.
Completed(stmt) ==
    \E i \in 1..Len(w_log) : w_log[i].stmt = stmt /\ w_log[i].outcome = "ok"
Raised(stmt) ==
    \E i \in 1..Len(w_log) : w_log[i].stmt = stmt /\ w_log[i].outcome = "raised"

\* C13: when staging consolidation has run again for a raw snapshot it has
\* already consolidated, the staging rows of that (date, source) are, as a
\* multiset, the rows the earlier run left: deleted and inserted again, never
\* duplicated.
C13_StagingIdempotent ==
    (w_call.repeat /\ Completed("insert")) =>
       SameRowMultiset(SourceRows(entity, pgdb.staging, ExtractedDate, Carrefour),
                       w_call.prev)

C13_Witness ==
    /\ w_call.repeat
    /\ Completed("insert")
    /\ Len(w_call.prev) = 2
    /\ SourceRows(entity, pgdb.staging, ExtractedDate, Carrefour) = w_call.prev

\* The staging rows that are not of (date, carrefour).
ForeignRows(kind, rows, date) ==
    SelectSeq(rows, LAMBDA row : ~(row.extracted_date = date
                                      /\ SourceOf(kind, row) = Carrefour))

StagingStep == w_pc \in {"partition", "delete", "insert"} /\ w_pc' # w_pc

\* C14: a statement of staging consolidation leaves every staging row of
\* another source or of another date as it was.
C14_StagingDeletesOwnRowsOnly ==
    [][StagingStep =>
          ForeignRows(entity, pgdb'.staging, ExtractedDate)
             = ForeignRows(entity, pgdb.staging, ExtractedDate)]_vars

\* The errors CAST raises for a text it cannot convert.
CastErrors == {"invalid_text_representation", "numeric_value_out_of_range"}

\* C15: the INSERT of staging consolidation never raises because of the text
\* of a raw latitude, longitude or price: the text is cast or stored as null.
C15_ContentNeverRaises ==
    ~(Raised("insert") /\ w_err \in CastErrors)

\* C16: the upsert of production promotion does not fail (other than by a
\* fault of the database connection), on a first or on a repeated run over
\* the latest staging partition, and production holds one row for each key.
C16_ProductionIdempotent ==
    /\ Raised("upsert") => w_err = "fault"
    /\ \A i, j \in 1..Len(pgdb.prod) :
          ProdKey(entity, pgdb.prod[i]) = ProdKey(entity, pgdb.prod[j]) => i = j

\* The upsert of the running (or last) call was executed, and no fault of the
\* connection made it fail.
UpsertExecuted ==
    /\ \E i \in 1..Len(w_log) : w_log[i].stmt = "upsert"
    /\ w_err # "fault"

HasIdentifier(row) == ~row.store_id.null /\ row.store_id # SqlText("")

C18_RepresentativeDetermined ==
    LET src == Promoted(entity, pgdb.staging, w_call.latest)
    IN (/\ Completed("upsert")
        /\ promoted.made
        /\ SeqToSet(src) = promoted.src)
          => \A key \in Keys(entity, src) :
                /\ Cardinality({j \in 1..Len(pgdb.prod) :
                                   ProdKey(entity, pgdb.prod[j]) = key}) = 1
                /\ \A row \in promoted.out :
                      ProdKey(entity, row) = key => row \in SeqToSet(pgdb.prod)

StageRank(stage) ==
    CASE stage = "RAW" -> 1
      [] stage = "SCHEMAS" -> 2
      [] stage = "STAGING" -> 3
      [] stage = "PRODUCTION" -> 4

\* The stage the running call is in.
InStage(stage) ==
    w_pc \in {"raw", "schemas", "partition", "delete", "insert", "latest",
              "prod_partition", "upsert"} /\ StageOf(w_pc) = stage

\* C19: in run-pipeline the statements run in the order of the stages RAW,
\* STAGING, PRODUCTION; staging consolidation is entered only after raw
\* ingestion completed without error, production promotion only after the
\* INSERT of staging consolidation completed without error; a statement that
\* raised is the last one executed.
C19_PipelineOrder ==
    w_call.fn = "pipeline" =>
       /\ \A i, j \in 1..Len(w_log) :
             i < j => StageRank(w_log[i].stage) <= StageRank(w_log[j].stage)
       /\ \A i \in 1..Len(w_log) :
             w_log[i].outcome = "raised" => (i = Len(w_log) /\ w_pc = "raised")
       /\ (InStage("STAGING") \/ Completed("partition") \/ Raised("partition"))
             => Completed("raw")
       /\ (InStage("PRODUCTION") \/ Completed("latest") \/ Raised("latest"))
             => (Completed("raw") /\ Completed("insert"))

\* A pipeline run that has gone through raw ingestion and staging
\* consolidation and is at the last statement of production promotion.
C19_Witness ==
    /\ w_call.fn = "pipeline"
    /\ w_pc = "upsert"
    /\ Completed("raw")
    /\ Completed("insert")
    /\ Len(w_log) = 7

ProdStep == w_pc \in {"latest", "prod_partition", "upsert"} /\ w_pc' # w_pc

\* The call repeats a call of the same function that a fault made fail, and
\* this step is its statement `stmt` completing.
RetryCompletes(stmt) == w_call.retry /\ w_pc = stmt /\ w_pc' = NextPc(stmt)

\* C20: a statement of staging consolidation, failing or not, leaves the raw
\* tables as they were, and a statement of production promotion the raw
\* tables and the staging table; when the stage is run again after a fault
\* made it fail, it leaves what a run without a fault leaves: in staging, for
\* the (date, source), the rows selected from the raw table; in production,
\* for each key of the promoted rows, one row, a first row of the key.
C20_FailedStageRerunnable ==
    [][/\ StagingStep => pgdb'.raw = pgdb.raw
       /\ ProdStep => (pgdb'.raw = pgdb.raw /\ pgdb'.staging = pgdb.staging)
       /\ RetryCompletes("insert") =>
             SourceRows(entity, pgdb'.staging, ExtractedDate, Carrefour)
                = StagedRows(entity, pgdb.raw[w_call.name].rows, ExtractedDate).val
       /\ RetryCompletes("upsert") =>
             LET src == Promoted(entity, pgdb.staging, w_call.latest)
             IN \A key \in Keys(entity, src) :
                   \E j \in 1..Len(pgdb'.prod) :
                      /\ pgdb'.prod[j] \in Firsts(entity, src, key)
                      /\ \A k \in 1..Len(pgdb'.prod) :
                            ProdKey(entity, pgdb'.prod[k]) = key => k = j]_vars

\* A staging consolidation of stores that a fault made fail has been run
\* again and has completed.
C20_Witness ==
    /\ entity = "stores"
    /\ w_call.fn = "staging"
    /\ w_call.retry
    /\ w_pc = "done"
    /\ SourceRows(entity, pgdb.staging, ExtractedDate, Carrefour) # <<>>

\* C23: no step of any command removes a production key: every (natural key,
\* date, source) a production row carries before the step is carried by a
\* production row after it.
C23_ProductionKeysOnlyGrow ==
    [][\A i \in 1..Len(pgdb.prod) :
          \E j \in 1..Len(pgdb'.prod) :
             ProdKey(entity, pgdb'.prod[j]) = ProdKey(entity, pgdb.prod[i])]_vars

\* A promotion has completed on a production table that already held the
\* rows of an earlier date.
C23_Witness ==
    /\ Completed("upsert")
    /\ \E i, j \in 1..Len(pgdb.prod) :
          /\ pgdb.prod[i].extracted_date < pgdb.prod[j].extracted_date
          /\ pgdb.prod[j].extracted_date = w_call.latest

\* C31: whenever production promotion has reached its upsert, the conflict
\* target of the upsert is the column set of the UNIQUE constraint of the
\* production table of that kind, and the upsert is not rejected for want of
\* a matching constraint.
C31_ConflictTargetIsConstraint ==
    (w_pc = "upsert" \/ \E i \in 1..Len(w_log) : w_log[i].stmt = "upsert") =>
       /\ ConflictTarget(entity) = UniqueConstraint(entity)
       /\ w_err # "invalid_column_reference"

\* C37: when staging holds no row in the scope of the latest-date query,
\* the step of production promotion that reads the latest date ends the call
\* without an error, and leaves the partitions and the tables as they were.
C37_NoDataExit ==
    [][(/\ w_pc = "latest"
        /\ w_pc' # w_pc
        /\ w_err' # "fault"
        /\ LatestScope(entity, pgdb.staging) = <<>>)
          => (w_pc' = "done" /\ w_err' = "none" /\ pgdb' = pgdb)]_vars

\* The rows of a table that belong to another source than carrefour.
OfOtherSources(kind, rows) == SelectSeq(rows, LAMBDA row : SourceOf(kind, row) # Carrefour)

\* C39: no step of production promotion of the carrefour pipeline inserts or
\* changes a production row of another source.
C39_OtherSourcesUntouched ==
    [][ProdStep => OfOtherSources(entity, pgdb'.prod) = OfOtherSources(entity, pgdb.prod)]_vars

\* C33: in run-pipeline, once raw ingestion has completed, every column
\* the staging SELECT reads is a column of the raw table ingestion created
\* from the extractor's frame, and staging consolidation does not fail on a
\* column the raw table lacks.
C33_StagingReadsRawColumns ==
    w_call.fn = "pipeline" =>
       /\ Completed("raw") => StagingReads(entity) \subseteq RawTable(w_call.data).cols
       /\ w_err # "undefined_column"

\* C38: in run-pipeline, the step in which raw ingestion writes its table
\* writes the table whose name the pipeline hands to staging consolidation.
C38_PipelineReadsTableWritten ==
    [][(w_call.fn = "pipeline" /\ w_pc = "raw" /\ w_pc' = NextPc("raw"))
          => /\ w_call.name = RawName(entity, today)
             /\ w_call.name \in DOMAIN pgdb'.raw]_vars

(***************************************************************************)
(* Properties of the extraction functions (SpecRecords).                   *)
(***************************************************************************)
StoresReturned(fn) == x_pc = "done" /\ x_call.fn = fn
RowsWith(rows, column, cell) == {k \in 1..Len(rows) : rows[k][column] = cell}

\* C24: when extract_supermarkets of either source has returned, every
\* store_id of the accepted input records (for a carrefour marker without an
\* identifier: its coordinate pair rounded to 5 decimals) is on exactly one
\* row of the result, however many records carried it.
C24_OneRecordPerStoreId ==
    \A fn \in {"carrefour_stores", "ahorramas_stores"} :
       StoresReturned(fn) =>
          \A i \in 1..Len(x_items) :
             Cardinality(RowsWith(x_df, "store_id", x_items[i].store_id)) = 1

\* A coordinate pair with a number outside [-90, 90] or [-180, 180].
OutOfBounds(lat_f, lng_f) ==
    \/ lat_f.kind = "num" /\ ~LowerUpper(lat_f, 90)
    \/ lng_f.kind = "num" /\ ~LowerUpper(lng_f, 180)
CoordinatesOf(lat, lng) == <<StrFloat(PyFloat(lat)), StrFloat(PyFloat(lng))>>

\* C25: when extract_supermarkets of either source has returned the frame
\* that extract-raw loads into the raw table, no row of it has a latitude
\* outside [-90, 90] or a longitude outside [-180, 180]; and a carrefour
\* marker whose coordinates are within the bounds, the bounds included, has
\* been accepted.
C25_OutOfBoundsDropped ==
    \A fn \in {"carrefour_stores", "ahorramas_stores"} :
       StoresReturned(fn) =>
          /\ \A k \in 1..Len(x_df) :
                ~OutOfBounds(PyFloat(x_df[k].latitude.v), PyFloat(x_df[k].longitude.v))
          /\ fn = "carrefour_stores" =>
                \A i \in 1..Len(x_call.input) :
                   LET lat == OrEmpty(x_call.input[i].lat)
                       lng == OrEmpty(x_call.input[i].lng)
                   IN InBounds(PyFloat(lat), PyFloat(lng)) =>
                         \E j \in 1..Len(x_items) :
                            <<x_items[j].latitude.v, x_items[j].longitude.v>>
                               = CoordinatesOf(lat, lng)

\* The columns each deduplication goes by.
NaturalKey(fn) == IF fn = "carrefour_stores" THEN {"store_id"} ELSE {"name", "supermarket"}
FirstOfKey(rows, subset, key) == rows[Minimum(RowsOfKey(rows, subset, key))]

\* C26: when extract_supermarkets or extract_products_from_html_files of
\* carrefour has returned, every row of the result is, among the records
\* with its natural key (store_id; name and supermarket), the first one in
\* input order.
C26_FirstOccurrenceKept ==
    \A fn \in {"carrefour_stores", "carrefour_products"} :
       StoresReturned(fn) =>
          \A k \in 1..Len(x_df) :
             x_df[k] = FirstOfKey(x_items, NaturalKey(fn), SubsetKey(x_df[k], NaturalKey(fn)))

\* C29: extract_products_from_html_files and the ahorramas
\* extract_supermarkets never raise on a malformed record, and when they
\* have returned, every well-formed record of every input (the entries of an
\* HTML file with an impressions array, the stores of the store list) is
\* among the records extracted.
C29_MalformedRecordSkipped ==
    /\ x_call.fn \in {"carrefour_products", "ahorramas_stores"} => x_pc # "raised"
    /\ StoresReturned("carrefour_products") =>
          \A f \in 1..Len(x_call.input) :
             LET file == x_call.input[f]
             IN \A i \in 1..Len(file.entries) :
                   (file.impressions = "array" /\ ~EntryRaises(file.entries[i])) =>
                      \E j \in 1..Len(x_items) :
                         x_items[j] = CleanProduct(file.entries[i], ProductMap(file.links),
                                                   file.name)
    /\ StoresReturned("ahorramas_stores") =>
          \A i \in 1..Len(x_call.input) :
             HasKeys(x_call.input[i]) =>
                \E j \in 1..Len(x_items) : x_items[j] = StoreDictItem(x_call.input[i])

ProductFields == {"discount_value", "price", "price_per_unit", "name", "image", "url"}

\* C30: when extract_products has parsed the tiles of a chunk, every field
\* (discount-value, price, price-per-unit, name, image, url) of every record
\* is a string, the empty string where the element or the attribute is
\* missing, and no tile has raised.
C30_FieldsAreStrings ==
    x_call.fn = "ahorramas_products" =>
       /\ x_pc # "raised"
       /\ \A j \in 1..Len(x_items) :
             \A field \in ProductFields : x_items[j][field].kind = "str"

(***************************************************************************)
(* Properties of execute_query (SpecQuery).                                *)
(***************************************************************************)
QueryOver == q_pc \in {"returned", "raised"}

\* C27: the step that ends an execute_query call, by returning or by
\* raising, leaves as many connections checked out of the pool as there were
\* when the call began.
C27_ConnectionReturned ==
    [][(q_pc = "finally" /\ q_pc' \in {"returned", "raised"}) => pool'.out = q_call.before]_vars

\* A call whose statement failed, made while another connection was out, is
\* over.
C27_Witness ==
    /\ q_pc = "raised"
    /\ q_call.err = "statement"
    /\ q_call.conn
    /\ q_call.before = 1
    /\ pool.out = 1

\* C28: a call that has returned, with fetch set or not, handed its
\* connection back with its statement committed, and what the statement
\* writes is in the database; a call whose statement failed has raised,
\* handed its connection back rolled back, and left the database as it was
\* when the call began.
C28_Transactional ==
    /\ q_pc = "returned" =>
          /\ q_call.put = "idle"
          /\ Writes(q_call.query) \subseteq committed
    /\ (QueryOver /\ q_call.err = "statement") =>
          /\ q_pc = "raised"
          /\ q_call.put = "idle"
          /\ committed = q_call.at_call

(***************************************************************************)
(* Properties of fetch_supermarkets (SpecStoreFetch).                      *)
(***************************************************************************)
StoreFetchOver == s_pc \in {"returned", "raised"}
StoreFetchAllFailed ==
    \A i \in 1..Len(s_outcomes) : s_outcomes[i] \in {"timeout", "transport"}

\* C32: fetch_supermarkets sleeps after every attempt that fails with a
\* timeout or a connection failure, longer after a later attempt than after
\* an earlier one; it makes at most 5 attempts, and when 5 attempts have
\* failed this way it raises RuntimeError and returns no data.
C32_StoreFetchBackoff ==
    /\ Len(s_outcomes) <= 5
    /\ \A i \in 1..Len(s_outcomes) :
          (s_outcomes[i] \in {"timeout", "transport"} /\ (i < Len(s_outcomes) \/ StoreFetchOver))
             => \E k \in 1..Len(s_sleeps) : s_sleeps[k].attempt = i - 1
    /\ \A j, k \in 1..Len(s_sleeps) :
          s_sleeps[j].attempt < s_sleeps[k].attempt => s_sleeps[j].secs < s_sleeps[k].secs
    /\ (StoreFetchOver /\ StoreFetchAllFailed) =>
          /\ s_pc = "raised"
          /\ s_result.kind = "RuntimeError"
          /\ Len(s_outcomes) = 5

====
